----------------------------- MODULE Spec2Model -----------------------------
(***************************************************************************)
(* A model of the interception, schema-reconciliation and replay pipeline  *)
(* of the proxy (src/mitm): the schema diff (compare_json.py), the fuzzy   *)
(* field matcher, the correction-script generator and its fingerprint      *)
(* cache (generate_fix_data_script.py, utils.py) and the request/response  *)
(* hooks with their convergence loop (intercept.py).                       *)
(*                                                                         *)
(* Representation.  A Python str is a sequence of one-character strings,   *)
(* so that splitting, joining, sorting and difflib's ratio are computed,   *)
(* not assumed.  A JSON value is a tagged record [k, v]: k is the name of  *)
(* the Python type ("dict", "list", "str", "int"), v the function from     *)
(* keys to values, the sequence of elements, or the leaf value.  A field   *)
(* path "a.b[0].c" is kept split at the dots: <<"a", "b[0]", "c">>.        *)
(* Field names of the modelled universe contain no '.', no quote and no    *)
(* backslash, so that split('.') and the quoting of the generated script   *)
(* are exact.                                                              *)
(***************************************************************************)
EXTENDS Integers, Sequences, FiniteSets, TLC

(***************************************************************************)
(* Characters and strings                                                  *)
(***************************************************************************)
\* The characters of the universe in ASCII order (Python compares str by code point).
Alphabet ==
  <<"0", "1", "2", "[", "]", "_",
    "a", "b", "c", "d", "e", "f", "g", "h", "i", "j", "k", "l", "m",
    "n", "o", "p", "q", "r", "s", "t", "u", "v", "w", "x", "y", "z">>

CharCode(c) == CHOOSE i \in 1..Len(Alphabet) : Alphabet[i] = c

\* s < t for two Python str
StrLess(s, t) ==
  \E i \in 1..(Len(s) + 1) :
     /\ i <= Len(t)
     /\ \A j \in 1..(i - 1) : s[j] = t[j]
     /\ \/ i = Len(s) + 1
        \/ CharCode(s[i]) < CharCode(t[i])

RECURSIVE SortedStrs(_)
\* sorted(S) for a set of str
SortedStrs(S) ==
  IF S = {} THEN <<>>
  ELSE LET m == CHOOSE x \in S : \A y \in S : x = y \/ StrLess(x, y)
       IN  <<m>> \o SortedStrs(S \ {m})

Reverse(s) == [i \in 1..Len(s) |-> s[Len(s) + 1 - i]]

\* The order in which Python iterates a set of str.  It depends on the
\* hash seed of the process: `ord` names the order the run has.
SetOrders == {"asc", "desc"}
IterOrder(S, ord) == IF ord = "asc" THEN SortedStrs(S) ELSE Reverse(SortedStrs(S))

RECURSIVE Join(_, _)
\* sep.join(parts)
Join(parts, sep) ==
  IF parts = <<>> THEN <<>>
  ELSE IF Len(parts) = 1 THEN parts[1]
  ELSE parts[1] \o sep \o Join(Tail(parts), sep)

\* field names of the universe
s_id       == <<"i", "d">>
s_name     == <<"n", "a", "m", "e">>
s_nme      == <<"n", "m", "e">>
s_message  == <<"m", "e", "s", "s", "a", "g", "e">>
s_messages == <<"m", "e", "s", "s", "a", "g", "e", "s">>
s_source   == <<"s", "o", "u", "r", "c", "e">>
s_sourc    == <<"s", "o", "u", "r", "c">>
s_idx      == <<"[", "0", "]">>

(***************************************************************************)
(* JSON values                                                             *)
(***************************************************************************)
Dict(f)  == [k |-> "dict", v |-> f]
List(s)  == [k |-> "list", v |-> s]
StrV(x)  == [k |-> "str", v |-> x]
IntV(n)  == [k |-> "int", v |-> n]
EmptyDict == Dict(<<>>)

IsDict(x) == x.k = "dict"
IsList(x) == x.k = "list"

\* a dict with one more key
DictPut(d, key, val) ==
  Dict([x \in (DOMAIN d.v) \cup {key} |-> IF x = key THEN val ELSE d.v[x]])

\* a dict without a key
DictDel(d, key) == Dict([x \in (DOMAIN d.v) \ {key} |-> d.v[x]])

(***************************************************************************)
(* compare_json.py: the schema diff                                        *)
(***************************************************************************)
\* a path that is the key alone
PathKeyBare(path, key) == <<key>>

\* f"{path}.{key}" if path else key, kept split at the dots
PathKey(path, key) == IF path = <<>> THEN <<key>> ELSE Append(path, key)

\* f"{path}[0]"
PathIdx(path) ==
  IF path = <<>> THEN <<s_idx>>
  ELSE [path EXCEPT ![Len(path)] = @ \o s_idx]

\* mismatches[path] = kind on an insertion-ordered dict
MapSet(m, path, kind) ==
  IF \E i \in 1..Len(m) : m[i].path = path
  THEN [i \in 1..Len(m) |-> IF m[i].path = path THEN [path |-> path, kind |-> kind] ELSE m[i]]
  ELSE Append(m, [path |-> path, kind |-> kind])

\* an update that merges nothing
MapUpdateDrops(m, other) == m

RECURSIVE MapUpdate(_, _)
\* mismatches.update(other)
MapUpdate(m, other) ==
  IF other = <<>> THEN m
  ELSE MapUpdate(MapSet(m, other[1].path, other[1].kind), Tail(other))

MissingInA == "Missing in A"
MissingInB == "Missing in B"
TypeMismatch(a, b) == "Type mismatch: " \o a.k \o " vs " \o b.k

RECURSIVE compare_json_keys(_, _, _, _)
RECURSIVE CompareDictKeys(_, _, _, _, _, _)

\* the loop `for key in all_keys` of compare_json_keys, from keys[i] on
CompareDictKeys(a, b, path, ord, keys, acc) ==
  IF keys = <<>> THEN acc
  ELSE LET key == keys[1]
           new_path == PathKey(path, key)
           acc2 == IF key \notin DOMAIN a.v THEN MapSet(acc, new_path, MissingInA)
                   ELSE IF key \notin DOMAIN b.v THEN MapSet(acc, new_path, MissingInB)
                   ELSE MapUpdate(acc, compare_json_keys(a.v[key], b.v[key], new_path, ord))
       IN  CompareDictKeys(a, b, path, ord, Tail(keys), acc2)

\* a diff that compares the last elements of two sequences
compare_json_keys_last(a, b, path, ord) ==
  IF IsDict(a) /\ IsDict(b)
  THEN CompareDictKeys(a, b, path, ord, IterOrder((DOMAIN a.v) \cup (DOMAIN b.v), ord), <<>>)
  ELSE IF IsList(a) /\ IsList(b)
  THEN IF a.v # <<>> /\ b.v # <<>>
       THEN compare_json_keys(a.v[Len(a.v)], b.v[Len(b.v)], PathIdx(path), ord)
       ELSE IF a.v # <<>> THEN <<[path |-> PathIdx(path), kind |-> MissingInB]>>
       ELSE IF b.v # <<>> THEN <<[path |-> PathIdx(path), kind |-> MissingInA]>>
       ELSE <<>>
  ELSE IF a.k # b.k THEN <<[path |-> path, kind |-> TypeMismatch(a, b)]>>
  ELSE <<>>

compare_json_keys(a, b, path, ord) ==
  IF IsDict(a) /\ IsDict(b)
  THEN CompareDictKeys(a, b, path, ord, IterOrder((DOMAIN a.v) \cup (DOMAIN b.v), ord), <<>>)
  ELSE IF IsList(a) /\ IsList(b)
  THEN IF a.v # <<>> /\ b.v # <<>> THEN compare_json_keys(a.v[1], b.v[1], PathIdx(path), ord)
       ELSE IF a.v # <<>> THEN <<[path |-> PathIdx(path), kind |-> MissingInB]>>
       ELSE IF b.v # <<>> THEN <<[path |-> PathIdx(path), kind |-> MissingInA]>>
       ELSE <<>>
  ELSE IF a.k # b.k THEN <<[path |-> path, kind |-> TypeMismatch(a, b)]>>
  ELSE <<>>

(***************************************************************************)
(* compare_json.py: the fuzzy field matcher                                *)
(***************************************************************************)
\* a[i:i+n] == b[j:j+n]
BlockEq(a, b, i, j, n) == \A d \in 0..(n - 1) : a[i + d] = b[j + d]

\* difflib.SequenceMatcher.find_longest_match(alo, ahi, blo, bhi), positions
\* from 1 and ahi, bhi inclusive: the longest common block, of those the
\* one that starts earliest in a, of those the one that starts earliest in b.
FindLongestMatch(a, b, alo, ahi, blo, bhi) ==
  LET Blocks == {t \in (alo..ahi) \X (blo..bhi) \X (1..(ahi - alo + 1)) :
                    /\ t[1] + t[3] - 1 <= ahi
                    /\ t[2] + t[3] - 1 <= bhi
                    /\ BlockEq(a, b, t[1], t[2], t[3])}
      Before(s, t) == \/ s[3] > t[3]
                      \/ s[3] = t[3] /\ s[1] < t[1]
                      \/ s[3] = t[3] /\ s[1] = t[1] /\ s[2] < t[2]
  IN  IF Blocks = {} THEN <<alo, blo, 0>>
      ELSE CHOOSE s \in Blocks : \A t \in Blocks : s = t \/ Before(s, t)

RECURSIVE MatchingChars(_, _, _, _, _, _)
RECURSIVE MatchingAround(_, _, _, _, _, _, _)
\* the total size of SequenceMatcher.get_matching_blocks()
MatchingChars(a, b, alo, ahi, blo, bhi) ==
  IF alo > ahi \/ blo > bhi THEN 0
  ELSE MatchingAround(a, b, alo, ahi, blo, bhi, FindLongestMatch(a, b, alo, ahi, blo, bhi))

\* the longest block m, and the blocks to its left and to its right
MatchingAround(a, b, alo, ahi, blo, bhi, m) ==
  IF m[3] = 0 THEN 0
  ELSE m[3] + MatchingChars(a, b, alo, m[1] - 1, blo, m[2] - 1)
            + MatchingChars(a, b, m[1] + m[3], ahi, m[2] + m[3], bhi)

\* round(SequenceMatcher(None, word1, word2).ratio(), 3), in thousandths.
\* ratio() is 2*M/T, and 1.0 for two empty words; below T = 32 no ratio
\* lies half-way between two thousandths, so the rounding is to nearest.
compare_words(word1, word2) ==
  LET T == Len(word1) + Len(word2)
      M == MatchingChars(word1, word2, 1, Len(word1), 1, Len(word2))
  IN  IF T = 0 THEN 1000 ELSE (4000 * M + T) \div (2 * T)

\* ".".join(key.split(".")[:-1]) and key.split(".")[-1]; "".split(".") is [""]
SplitPath(path) == IF path = <<>> THEN << <<>> >> ELSE path
BasePath(path) == SubSeq(SplitPath(path), 1, Len(SplitPath(path)) - 1)
FieldName(path) == SplitPath(path)[Len(SplitPath(path))]

RECURSIVE BestMatch(_, _, _, _)
\* the inner loop of finall_boss_improved over obj.items() from index i,
\* with the best match so far; best.key = <<"None">> stands for None
NoMatch == [key |-> <<"None">>, score |-> 0]
\* the candidate seen last wins
BetterLast(b_key, score, best) == [key |-> b_key, score |-> score]

\* lines 82-85: the best match after the candidate b_key of the given score
Better(b_key, score, best) ==
  IF score > best.score THEN [key |-> b_key, score |-> score] ELSE best

RECURSIVE BestMatchAnyParent(_, _, _, _)
\* a match with the missing fields of every parent
BestMatchAnyParent(obj, a_key, i, best) ==
  IF i > Len(obj) THEN best
  ELSE BestMatchAnyParent(obj, a_key, i + 1,
                          IF obj[i].kind = MissingInB
                          THEN Better(obj[i].path,
                                      compare_words(FieldName(a_key), FieldName(obj[i].path)),
                                      best)
                          ELSE best)

BestMatch(obj, a_key, i, best) ==
  IF i > Len(obj) THEN best
  ELSE BestMatch(obj, a_key, i + 1,
                 IF obj[i].kind = MissingInB /\ BasePath(obj[i].path) = BasePath(a_key)
                 THEN Better(obj[i].path,
                             compare_words(FieldName(a_key), FieldName(obj[i].path)), best)
                 ELSE best)

RECURSIVE Matches(_, _)
\* the outer loop of finall_boss_improved: matches before the sort
\* lines 87-88: `if best_match_key:` and the append
Matched(a_key, best) ==
  IF best # NoMatch /\ best.key # <<>>
  THEN <<[wrong |-> a_key, correct |-> best.key, score |-> best.score]>>
  ELSE <<>>

Matches(obj, i) ==
  IF i > Len(obj) THEN <<>>
  ELSE (IF obj[i].kind = MissingInA
        THEN Matched(obj[i].path, BestMatch(obj, obj[i].path, 1, NoMatch))
        ELSE <<>>) \o Matches(obj, i + 1)

\* a sort that leaves the list in the order it was built
InsertByScoreLast(sorted, m) == Append(sorted, m)

RECURSIVE InsertByScore(_, _)
\* list.sort(key=score, reverse=True) is stable: an element goes behind
\* every element of a score at least its own
InsertByScore(sorted, m) ==
  IF sorted = <<>> THEN <<m>>
  ELSE IF sorted[1].score >= m.score THEN <<sorted[1]>> \o InsertByScore(Tail(sorted), m)
  ELSE <<m>> \o sorted

RECURSIVE SortByScore(_, _)
SortByScore(ms, acc) ==
  IF ms = <<>> THEN acc ELSE SortByScore(Tail(ms), InsertByScore(acc, ms[1]))

finall_boss_improved(obj) == SortByScore(Matches(obj, 1), <<>>)

\* compare_json(json_a, json_b)
WithSimilarity(differences) ==
  [similarity |-> finall_boss_improved(differences), differences |-> differences]
compare_json(json_a, json_b, ord) ==
  WithSimilarity(compare_json_keys(json_a, json_b, <<>>, ord))

(***************************************************************************)
(* generate_fix_data_script.py: the correction routine                     *)
(*                                                                         *)
(* The generated file is determined by the list of candidates it was       *)
(* generated from: the model keeps that list as the script, and fix_data   *)
(* interprets it the way Python runs the generated statements.             *)
(***************************************************************************)
\* The outcome of evaluating data[p1][p2]...[pn] for str subscripts:
\* KeyError on a missing key, TypeError on a list, a str or a number.
Raised == [k |-> "raise", v |-> 0]

RECURSIVE GetPath(_, _)
GetPath(data, parts) ==
  IF parts = <<>> THEN data
  ELSE IF IsDict(data) /\ parts[1] \in DOMAIN data.v THEN GetPath(data.v[parts[1]], Tail(parts))
  ELSE Raised

RECURSIVE SetPath(_, _, _)
\* data[p1]...[pn] = value
SetPath(data, parts, value) ==
  IF ~IsDict(data) THEN Raised
  ELSE IF Len(parts) = 1 THEN DictPut(data, parts[1], value)
  ELSE IF parts[1] \notin DOMAIN data.v THEN Raised
  ELSE LET sub == SetPath(data.v[parts[1]], Tail(parts), value)
       IN  IF sub = Raised THEN Raised ELSE DictPut(data, parts[1], sub)

\* a deletion that deletes nothing
DelPathKeeps(data, parts) == data

RECURSIVE DelPath(_, _)
\* del data[p1]...[pn]
DelPath(data, parts) ==
  IF ~IsDict(data) \/ parts[1] \notin DOMAIN data.v THEN Raised
  ELSE IF Len(parts) = 1 THEN DictDel(data, parts[1])
  ELSE LET sub == DelPath(data.v[parts[1]], Tail(parts))
       IN  IF sub = Raised THEN Raised ELSE DictPut(data, parts[1], sub)

\* '<last>' in <container>: a key of a dict, an element of a list, a
\* substring of a str; TypeError on a number
Contains(container, last) ==
  CASE IsDict(container) -> last \in DOMAIN container.v
    [] IsList(container) -> \E i \in 1..Len(container.v) : container.v[i] = StrV(last)
    [] container.k = "str" ->
         \E i \in 1..(Len(container.v) + 1) :
            /\ i + Len(last) - 1 <= Len(container.v)
            /\ \A d \in 1..Len(last) : container.v[i + d - 1] = last[d]
    [] OTHER -> FALSE

\* a rename that assigns without asking whether the wrong key is there
ApplyRenameUnguarded(data, cand) ==
  IF GetPath(data, SplitPath(cand.wrong)) = Raised
  THEN IF SetPath(data, SplitPath(cand.correct), IntV(0)) = Raised THEN data
       ELSE SetPath(data, SplitPath(cand.correct), IntV(0))
  ELSE DelPath(SetPath(data, SplitPath(cand.correct), GetPath(data, SplitPath(cand.wrong))),
               SplitPath(cand.wrong))

\* One generated statement (lines 24-31 of the generator):
\*   try:
\*       if '<last>' in <parent of incorrect>:
\*           <correct> = <incorrect>
\*           del <incorrect>
\*   except (KeyError, TypeError): pass
ApplyRename(data, cand) ==
  LET incorrect_parts == SplitPath(cand.wrong)
      correct_parts == SplitPath(cand.correct)
      last == incorrect_parts[Len(incorrect_parts)]
      parent == GetPath(data, SubSeq(incorrect_parts, 1, Len(incorrect_parts) - 1))
      value == GetPath(data, incorrect_parts)
      assigned == SetPath(data, correct_parts, value)
      deleted == DelPath(assigned, incorrect_parts)
  IN  IF parent = Raised \/ parent.k = "int" \/ ~Contains(parent, last) THEN data
      ELSE IF value = Raised \/ assigned = Raised THEN data
      ELSE IF deleted = Raised THEN assigned
      ELSE deleted

RECURSIVE fix_data(_, _)
\* fix_data(data) of the script generated from field_similarity_tuples
fix_data(field_similarity_tuples, data) ==
  IF field_similarity_tuples = <<>> THEN data
  ELSE fix_data(Tail(field_similarity_tuples), ApplyRename(data, field_similarity_tuples[1]))

(***************************************************************************)
(* utils.py: the fingerprint and the executor                              *)
(***************************************************************************)
\* The body of a request (flow.request.content, or the str decoded from it):
\*   "empty"  b""
\*   "json"   a JSON document: its value, and how it is laid out
\*            ("client": as the client sent it, "indent2": json.dumps(.., indent=2)
\*            as a script prints it, "compact": json.dumps(..))
\*   "text"   UTF-8 text that is not JSON
\*   "binary" bytes that are not UTF-8
\*   "errmsg" the line "Error: Invalid JSON format." a script prints
NoData == IntV(0)
Body(kind, data, fmt) == [kind |-> kind, data |-> data, fmt |-> fmt]
EmptyBody == Body("empty", NoData, "client")
TextBody == Body("text", NoData, "client")
BinaryBody == Body("binary", NoData, "client")
ErrMsgBody == Body("errmsg", NoData, "indent2")
JsonBody(data) == Body("json", data, "client")

\* content.decode('utf-8') raises UnicodeDecodeError
DecodeRaises(content) == content.kind = "binary"
\* json.loads(text) raises JSONDecodeError
LoadsRaises(text) == text.kind # "json"

\* str(i) for a list index
Digits == <<"0", "1", "2">>
IndexStr(i) == <<Digits[i + 1]>>

\* prefix_key, or key for an empty prefix
Prefixed(prefix, key) == IF prefix = <<>> THEN key ELSE prefix \o <<"_">> \o key

RECURSIVE extract_all_fields(_, _)
\* The inner function of get_file_path.  Only the set of the names it
\* returns is used (sorted(set(..))), so the model returns the set.
extract_all_fields(data, prefix) ==
  IF IsDict(data)
  THEN UNION {{Prefixed(prefix, key)} \cup
                (IF IsDict(data.v[key]) \/ IsList(data.v[key])
                 THEN extract_all_fields(data.v[key], Prefixed(prefix, key))
                 ELSE {}) : key \in DOMAIN data.v}
  ELSE IF IsList(data)
  THEN UNION {IF IsDict(data.v[i]) \/ IsList(data.v[i])
              THEN extract_all_fields(data.v[i], Prefixed(prefix, IndexStr(i - 1)))
              ELSE {} : i \in 1..Len(data.v)}
  ELSE {}

\* A path under api_correction_scripts/.  hashlib.md5(str_key) is taken to
\* be injective: the file name stands for the str_key it hashes.
HashPath(str_key) == [kind |-> "hash", key |-> str_key, url |-> <<>>]
\* f"api_correction_scripts/fallback_{flow.request.url}.py": the url holds
\* '/', so the file lies in directories that do not exist
FallbackPath(url) == [kind |-> "fallback", key |-> <<>>, url |-> url]

\* a fingerprint of the field names of the payload alone
get_file_path_of_client(request, backend_json) ==
  IF DecodeRaises(request.content) \/ LoadsRaises(request.content)
  THEN FallbackPath(<<request.host, request.path>>)
  ELSE HashPath(Join(SortedStrs(extract_all_fields(request.content.data, <<>>)), <<"_">>))

\* get_file_path(flow, backend_json); `request` is flow.request
get_file_path(request, backend_json) ==
  IF DecodeRaises(request.content) \/ LoadsRaises(request.content)
  THEN FallbackPath(<<request.host, request.path>>)
  ELSE LET client_fields == extract_all_fields(request.content.data, <<>>)
           backend_fields == extract_all_fields(backend_json, <<>>)
           all_fields == SortedStrs(client_fields \cup backend_fields)
       IN  HashPath(Join(all_fields, <<"_">>))

\* What running a script can end in: it prints its result ("ok"), it is
\* killed after 5 s ("timeout"), or it exits non-zero ("exit1").
ExecOutcomes == {"ok", "timeout", "exit1"}

\* The __main__ part of a generated script run on argv[1] = api
RunScript(script, api) ==
  IF LoadsRaises(api) THEN ErrMsgBody
  ELSE Body("json", fix_data(script, api.data), "indent2")

\* an executor that returns what the script printed before it was killed
fix_api_on_timeout(api, file_path, store, o) ==
  IF file_path \in DOMAIN store /\ o # "exit1" THEN RunScript(store[file_path], api)
  ELSE api

\* fix_api(api, file_path) with the files `store` and the outcome `o` of the run
fix_api(api, file_path, store, o) ==
  IF file_path \in DOMAIN store /\ o = "ok" THEN RunScript(store[file_path], api)
  ELSE api

\* generate_fix_data_script(field_similarity_tuples, file_path): the files
\* after open(file_path, 'w').write(script).  It raises for a path whose
\* directory does not exist.
GenerateRaises(file_path) == file_path.kind = "fallback"
generate_fix_data_script(field_similarity_tuples, file_path, store) ==
  [p \in (DOMAIN store) \cup {file_path} |->
     IF p = file_path THEN field_similarity_tuples ELSE store[p]]

(***************************************************************************)
(* The schema registry (request_schemas.json, flask_routes.json)           *)
(*                                                                         *)
(* The registry is data the proxy loads at start (intercept.py:17-21).     *)
(* The model fixes one: POST /receive and PATCH /users/<user_id> expect    *)
(* the flat document of the demo backend, PUT /users/<user_id> a nested    *)
(* one with a sequence.  A path is the sequence of its segments.           *)
(***************************************************************************)
T_receive == <<"receive">>
T_user    == <<"users", "<user_id>">>
T_short   == <<"short">>
T_alias   == <<"alias">>
NoneRoute == <<"None">>

\* the keys of flask_routes.json in file order
RouteOrder == <<T_receive, T_user, T_short, T_alias>>

FlatSchema ==
  Dict((s_id :> IntV(1)) @@ (s_name :> StrV(<<"s">>)) @@
       (s_message :> StrV(<<"s">>)) @@ (s_source :> StrV(<<"s">>)))

NestedSchema ==
  Dict((s_name :> Dict(s_message :> Dict(s_source :> StrV(<<"s">>)))) @@
       (s_id :> List(<<Dict(s_name :> StrV(<<"s">>))>>)))

\* the schemas of two routes of which one has a field that is a misspelling
\* of a field of the other
ShortSchema == Dict(s_name :> StrV(<<"s">>))
AliasSchema == Dict((s_name :> StrV(<<"s">>)) @@ (s_nme :> StrV(<<"s">>)))

\* json_schemas.get(url_pattern, {}); the second value says whether the key exists
HasSchema(url_pattern, method) ==
  \/ url_pattern = T_receive /\ method = "POST"
  \/ url_pattern = T_user /\ method \in {"PUT", "PATCH"}
  \/ url_pattern \in {T_short, T_alias} /\ method = "POST"

\* get_schema_for_endpoint_method(url_pattern, method)
get_schema_for_endpoint_method(url_pattern, method) ==
  IF ~HasSchema(url_pattern, method) THEN EmptyDict
  ELSE IF url_pattern = T_user /\ method = "PUT" THEN NestedSchema
  ELSE IF url_pattern = T_short THEN ShortSchema
  ELSE IF url_pattern = T_alias THEN AliasSchema
  ELSE FlatSchema

\* get_code_for_endpoint_method(url_pattern, method): the handler's source
get_code_for_endpoint_method(url_pattern, method) ==
  IF url_pattern \in {T_receive, T_short, T_alias} /\ method = "POST"
  THEN "def receive(): ..."
  ELSE IF url_pattern = T_user /\ method \in {"GET", "PUT", "PATCH"}
  THEN "def user_" \o method \o "(user_id): ..."
  ELSE ""

\* a segment of a template that is a placeholder <name>
IsPlaceholder(seg) == seg \in {"<user_id>"}

\* is_dynamic_route_match(request_path, route_pattern): each <name> becomes
\* ([^/]+) and the pattern must match the whole path
is_dynamic_route_match(request_path, route_pattern) ==
  /\ Len(request_path) = Len(route_pattern)
  /\ \A i \in 1..Len(route_pattern) :
        IF IsPlaceholder(route_pattern[i]) THEN request_path[i] # ""
        ELSE request_path[i] = route_pattern[i]

\* find_route_pattern(request_path, routes_data=codes)
find_route_pattern(request_path) ==
  IF \E i \in 1..Len(RouteOrder) : RouteOrder[i] = request_path THEN request_path
  ELSE IF \E i \in 1..Len(RouteOrder) : is_dynamic_route_match(request_path, RouteOrder[i])
  THEN RouteOrder[CHOOSE i \in 1..Len(RouteOrder) :
                    /\ is_dynamic_route_match(request_path, RouteOrder[i])
                    /\ \A j \in 1..(i - 1) : ~is_dynamic_route_match(request_path, RouteOrder[j])]
  ELSE NoneRoute

(***************************************************************************)
(* utils.py: the audit log                                                 *)
(***************************************************************************)
\* status_messages.get(status_code, "Unknown Error")
StatusMessage(status_code) ==
  CASE status_code = 400 -> "Bad Request"
    [] status_code = 401 -> "Unauthorized"
    [] status_code = 403 -> "Forbidden"
    [] status_code = 404 -> "Not Found"
    [] status_code = 409 -> "Conflict"
    [] status_code = 429 -> "Too Many Requests"
    [] status_code = 500 -> "Internal Server Error"
    [] status_code = 503 -> "Service Unavailable"
    [] OTHER -> "Unknown Error"

\* the paths of a diff that have a given kind, in the diff's order
RECURSIVE PathsOfKind(_, _)
PathsOfKind(differences, kind) ==
  IF differences = <<>> THEN <<>>
  ELSE (IF differences[1].kind = kind THEN <<differences[1].path>> ELSE <<>>)
       \o PathsOfKind(Tail(differences), kind)

\* generate_error_documentation(url_path, status_code, method, field_differences):
\* the one entry {url_path: {...}} it returns; the cause is kept as the two
\* lists its text is made of
generate_error_documentation(url_path, status_code, method, field_differences) ==
  [route |-> url_path,
   doc |-> [status_code |-> status_code,
            method |-> method,
            message |-> StatusMessage(status_code),
            missing |-> PathsOfKind(field_differences, MissingInB),
            extra |-> PathsOfKind(field_differences, MissingInA)]]

\* log/log.json: `valid` is whether the file holds a JSON document (a file
\* that is absent or empty has no entries and counts as valid), `docs` its
\* entries by key, `written` the keys of the writes that came to their end.
\* json.dump writes the key None as "null".
NullKey == <<"null">>
EmptyLog == [valid |-> TRUE, docs |-> <<>>, written |-> {}]

\* save_to_json_file(data) for data = {entry.route: entry.doc}.  With
\* sort_keys=True json.dump sorts the keys and raises TypeError when None is
\* one of several keys: the file, already opened for writing, is left
\* holding "{", which is not JSON.
save_to_json_file(logfile, entry) ==
  LET existing == IF logfile.valid THEN logfile.docs ELSE <<>>
      key == IF entry.route = NoneRoute THEN NullKey ELSE entry.route
  IN  IF entry.route = NoneRoute /\ DOMAIN existing # {}
      THEN [valid |-> FALSE, docs |-> <<>>, written |-> logfile.written]
      ELSE [valid |-> TRUE,
            docs |-> [r \in (DOMAIN existing) \cup {key} |->
                        IF r = key THEN entry.doc ELSE existing[r]],
            written |-> logfile.written \cup {key}]

(***************************************************************************)
(* intercept.py: the state of the proxy                                    *)
(***************************************************************************)
\* The model's bound on the rounds of one convergence loop (the code has none).
MaxRounds == 3

\* The model's bound on the script runs that fail (time out or exit non-zero).
MaxFaults == 1

\* The in-flight exchanges.
Flows == {1, 2}

BACKEND_URL == "backend"
TABLE_NAME == "users"

\* intercept.py:200
FailureCodes == {400, 401, 403, 404, 429, 500, 503}
\* the statuses a server answers with in the model
Statuses == {200, 400}

\* what the httpx call of the replay ends in
ReplayOutcomes ==
  {[kind |-> "timeout", status |-> 0], [kind |-> "error", status |-> 0]}
    \cup {[kind |-> "response", status |-> st] : st \in Statuses}

\* --- the requests clients send ---
FlatWrong ==
  Dict((s_id :> IntV(123)) @@ (s_nme :> StrV(<<"j">>)) @@
       (s_messages :> StrV(<<"h">>)) @@ (s_sourc :> StrV(<<"c">>)))
FlatValid ==
  Dict((s_id :> IntV(123)) @@ (s_name :> StrV(<<"j">>)) @@
       (s_message :> StrV(<<"h">>)) @@ (s_source :> StrV(<<"c">>)))
\* a field is missing, no field is misnamed
FlatShort ==
  Dict((s_id :> IntV(123)) @@ (s_name :> StrV(<<"j">>)) @@ (s_message :> StrV(<<"h">>)))
\* a misnamed mapping that holds a misnamed mapping that holds a misnamed field
NestedWrong ==
  Dict((s_nme :> Dict(s_messages :> Dict(s_sourc :> StrV(<<"c">>)))) @@
       (s_id :> List(<<Dict(s_name :> StrV(<<"j">>))>>)))
NestedValid ==
  Dict((s_name :> Dict(s_message :> Dict(s_source :> StrV(<<"c">>)))) @@
       (s_id :> List(<<Dict(s_name :> StrV(<<"j">>))>>)))
\* a misnamed field inside a sequence
ListWrong ==
  Dict((s_name :> Dict(s_message :> Dict(s_source :> StrV(<<"c">>)))) @@
       (s_id :> List(<<Dict(s_nme :> StrV(<<"j">>))>>)))

ClientRequest(path, method, content) == [path |-> path, method |-> method, content |-> content]

ClientRequests ==
  { ClientRequest(<<"receive">>, "POST", JsonBody(FlatWrong)),
    ClientRequest(<<"receive">>, "POST", JsonBody(FlatValid)),
    ClientRequest(<<"receive">>, "POST", BinaryBody),
    ClientRequest(<<"users", "7">>, "PUT", JsonBody(NestedWrong)),
    ClientRequest(<<"users", "7">>, "PUT", JsonBody(ListWrong)),
    ClientRequest(<<"users", "7">>, "PATCH", JsonBody(FlatWrong)),
    ClientRequest(<<"users", "7">>, "PATCH", JsonBody(FlatShort)),
    ClientRequest(<<"users", "7">>, "PATCH", JsonBody(FlatValid)),
    ClientRequest(<<"receive">>, "PUT", JsonBody(FlatWrong)),
    ClientRequest(<<"users", "7">>, "GET", EmptyBody),
    ClientRequest(<<"nope">>, "POST", JsonBody(FlatWrong)) }

\* flow.request: the url is its host and its path
Request(host, path, method, content) ==
  [host |-> host, path |-> path, method |-> method, content |-> content]
NoRequest == Request("", <<>>, "", EmptyBody)
\* flow.response; `content` names who produced the body
Response(status_code, content) == [status_code |-> status_code, content |-> content]
NoResponse == Response(0, "")

VARIABLES
  flows,                 \* flow -> its stage, the request the client sent, flow.request, flow.response,
                         \* what check_provider answered for it, whether its request hook raised
  original_client_flow,  \* the module global of intercept.py (line 189), with the flow it was copied
                         \* from and the request that flow's client sent
  scripts,               \* api_correction_scripts/: file path -> the script stored there
  logfile,               \* log/log.json
  hook,                  \* the hook the event loop is running, with its local variables
  hashOrder,             \* the iteration order of sets in this process
  synth,                 \* file path -> how often generate_fix_data_script wrote it, and for which route and method last
  fingerprints,          \* the (file path, route, method) of every get_file_path call that hashed
  executed,              \* the (route, method) a script was written for and the (route, method) it was run on
  faults,                \* how many runs of a script have failed
  probe                  \* the input and result of a function applied on its own

vars == <<flows, original_client_flow, scripts, logfile, hook, hashOrder,
          synth, fingerprints, executed, faults, probe>>

NoHook == [name |-> "none"]
NoSnapshot == [owner |-> 0, request |-> NoRequest, client |-> NoRequest]
NoProbe == [fn |-> "none"]

\* no replay has been made
NoReplay == [kind |-> "none", status |-> 0]

NewFlow ==
  [stage |-> "new", client |-> NoRequest, request |-> NoRequest, response |-> NoResponse,
   snapshotOf |-> 0, replays |-> 0, replayed |-> NoRequest, replay |-> NoReplay,
   probed |-> "none", raised |-> FALSE]

\* the proxy after its start: no flow has arrived, no script is stored
Started ==
  /\ flows = [f \in Flows |-> NewFlow]
  /\ original_client_flow = NoSnapshot
  /\ scripts = <<>>
  /\ logfile = EmptyLog
  /\ hook = NoHook
  /\ hashOrder \in SetOrders
  /\ synth = <<>>
  /\ fingerprints = {}
  /\ executed = {}
  /\ faults = 0

Init == Started /\ probe = NoProbe

(***************************************************************************)
(* intercept.py: the hooks                                                 *)
(*                                                                         *)
(* request and response are plain functions: the proxy's event loop runs   *)
(* one to its end before it runs another, so hooks of different flows      *)
(* interleave only as wholes.  A hook that reaches the convergence loop    *)
(* is split at the loop: one action enters it, loop_round is one pass      *)
(* through its body, and a continuation runs the rest of the hook once     *)
(* the loop condition is false.                                            *)
(***************************************************************************)
PutOrPatch == {"PUT", "PATCH"}

\* compare_json(endpoint_schema, json.loads(content))
Compared(endpoint_schema, content) == compare_json(endpoint_schema, content.data, hashOrder)

\* the (route, method) a script is written for or run on
RouteMethod(url_pattern, method) == [route |-> url_pattern, method |-> method]

\* synth after one more generate_fix_data_script(.., file_path)
Synthesized(file_path, url_pattern, method) ==
  [p \in (DOMAIN synth) \cup {file_path} |->
     IF p = file_path
     THEN [calls |-> (IF p \in DOMAIN synth THEN synth[p].calls ELSE 0) + 1,
           for |-> RouteMethod(url_pattern, method)]
     ELSE synth[p]]

\* what get_file_path adds to the fingerprints seen
Hashed(file_path, url_pattern, method) ==
  IF file_path.kind = "hash"
  THEN {[file |-> file_path, for |-> RouteMethod(url_pattern, method)]}
  ELSE {}

\* what fix_api adds to the runs seen: a stored script is run on a request
Ran(file_path, url_pattern, method) ==
  IF file_path \in DOMAIN scripts
  THEN {[file |-> file_path, origin |-> synth[file_path].for, on |-> RouteMethod(url_pattern, method)]}
  ELSE {}

\* what a run of a script may end in, and the failed runs after it
Outcomes == IF faults < MaxFaults THEN ExecOutcomes ELSE {"ok"}
Faulted(ran, o) == IF ran /\ o # "ok" THEN faults + 1 ELSE faults

\* a condition that lets the loop run one round at most
LoopConditionCapped(h) == h.found # <<>> /\ h.rounds < 1

\* The condition of the while loop (lines 112 and 224): h.found is
\* compare_json(endpoint_schema, json.loads(fixed_req_content))["similarity"],
\* which the code computes for lines 111 and 226 and again for the condition.
LoopCondition(h) == h.found # <<>>

\* Lines 108-113 of apply_iterative_fixes and 219-223 of response: the
\* first script, its run, and the local variables the loop starts with.
EnterLoop(name, f, flow_request, client_req, endpoint_schema, compare_json_data, url_pattern, method, o) ==
  \E file_path \in {get_file_path(flow_request, endpoint_schema)} :
  \E store \in {generate_fix_data_script(compare_json_data.similarity, file_path, scripts)} :
  \E fixed_req_content \in {fix_api(client_req, file_path, store, o)} :
  \E found \in {Compared(endpoint_schema, fixed_req_content).similarity} :
      /\ scripts' = store
      /\ synth' = Synthesized(file_path, url_pattern, method)
      /\ fingerprints' = fingerprints \cup Hashed(file_path, url_pattern, method)
      /\ faults' = Faulted(TRUE, o)
      /\ hook' = [name |-> name, flow |-> f,
                  client_req |-> client_req,
                  endpoint_schema |-> endpoint_schema,
                  first_similarity |-> compare_json_data.similarity,
                  file_path |-> file_path,
                  fixed_req_content |-> fixed_req_content,
                  found |-> found,
                  similarity |-> found,
                  url_pattern |-> url_pattern, method |-> method,
                  rounds |-> 0, allOk |-> (o = "ok"), previous |-> client_req]

\* only the candidates of the latest diff
AccumulatedLatest(h) == h.found

\* the candidates of the rounds before those of the first diff
AccumulatedFirstLast(h) == h.similarity \o h.first_similarity

\* compare_json_data['similarity'] + similarity (lines 115 and 225)
Accumulated(h) == h.first_similarity \o h.similarity

\* One pass through the body of the while loop (lines 115-117, 225-227).
loop_round ==
  /\ hook.name # "none"
  /\ LoopCondition(hook)
  /\ hook.rounds < MaxRounds
  /\ \E o \in Outcomes :
       \E store \in {generate_fix_data_script(Accumulated(hook), hook.file_path, scripts)} :
       \E fixed_req_content \in {fix_api(hook.client_req, hook.file_path, store, o)} :
       \E found \in {Compared(hook.endpoint_schema, fixed_req_content).similarity} :
           /\ scripts' = store
           /\ synth' = Synthesized(hook.file_path, hook.url_pattern, hook.method)
           /\ faults' = Faulted(TRUE, o)
           /\ hook' = [hook EXCEPT
                         !.fixed_req_content = fixed_req_content,
                         !.found = found,
                         !.similarity = @ \o found,
                         !.rounds = @ + 1,
                         !.allOk = @ /\ o = "ok",
                         !.previous = hook.fixed_req_content]
  /\ UNCHANGED <<flows, original_client_flow, logfile, hashOrder, fingerprints,
                 executed, probe>>

\* The correction of a request body by the stored script, for a method
\* that is not PUT or PATCH (lines 127-131 and 160-164).  `raised` is the
\* UnicodeDecodeError of content.decode('utf-8').
StoredFixAt(flow_request, url_pattern, method, o, file_path, applies) ==
  [raised |-> applies /\ DecodeRaises(flow_request.content),
   request |-> IF applies /\ ~DecodeRaises(flow_request.content)
               THEN [flow_request EXCEPT !.content = fix_api(@, file_path, scripts, o)]
               ELSE flow_request,
   hashed |-> IF applies THEN Hashed(file_path, url_pattern, method) ELSE {},
   ran |-> IF applies /\ ~DecodeRaises(flow_request.content)
           THEN Ran(file_path, url_pattern, method) ELSE {}]

\* a request hook that runs the stored script for no method
StoredFixNever(flow_request, url_pattern, method, o) ==
  StoredFixAt(flow_request, url_pattern, method, o,
              get_file_path(flow_request, get_schema_for_endpoint_method(url_pattern, method)),
              FALSE)

StoredFix(flow_request, url_pattern, method, o) ==
  StoredFixAt(flow_request, url_pattern, method, o,
              get_file_path(flow_request, get_schema_for_endpoint_method(url_pattern, method)),
              flow_request.content.kind # "empty" /\ method \notin PutOrPatch)

\* a routing to the backend that leaves the url of the request
handle_backend_routing_keeps_url(flow_request, url_path, url_pattern, method, o) ==
  StoredFix(flow_request, url_pattern, method, o)

\* handle_backend_routing(flow, url_path, url_pattern, method)
handle_backend_routing(flow_request, url_path, url_pattern, method, o) ==
  StoredFix([flow_request EXCEPT !.host = BACKEND_URL, !.path = url_path],
            url_pattern, method, o)

\* a str leaf whose text is not a field name: the text of a body, a url, ...
TextLeaf(text, content, path) ==
  [k |-> "str", v |-> <<>>, text |-> text, content |-> content, path |-> path]

s_client_req == <<"c", "l", "i", "e", "n", "t", "_", "r", "e", "q">>
s_url        == <<"u", "r", "l">>
s_code       == <<"c", "o", "d", "e">>
s_table_name == <<"t", "a", "b", "l", "e", "_", "n", "a", "m", "e">>
s_method     == <<"m", "e", "t", "h", "o", "d">>

\* get_request_content_for_llm(flow, url_pattern, method): the request after
\* it; the text it returns is the request's body read as UTF-8, or as
\* base64 when it is not UTF-8 (`enc`)
Encoded(fix) ==
  [raised |-> fix.raised, request |-> fix.request, hashed |-> fix.hashed, ran |-> fix.ran,
   enc |-> IF DecodeRaises(fix.request.content) THEN "base64" ELSE "utf-8"]
get_request_content_for_llm(flow_request, url_pattern, method, o) ==
  Encoded(StoredFix(flow_request, url_pattern, method, o))

\* an envelope that names the method of the rewritten request
llm_req_post(got, url_path, url_pattern, method) ==
  Dict((s_client_req :> TextLeaf(got.enc, got.request.content, <<>>)) @@
       (s_url :> TextLeaf(BACKEND_URL, EmptyBody, url_path)) @@
       (s_code :> TextLeaf(get_code_for_endpoint_method(url_pattern, method), EmptyBody, <<>>)) @@
       (s_table_name :> TextLeaf(TABLE_NAME, EmptyBody, <<>>)) @@
       (s_method :> TextLeaf("POST", EmptyBody, <<>>)))

\* the envelope sent to the LLM service (lines 138-144)
llm_req(got, url_path, url_pattern, method) ==
  Dict((s_client_req :> TextLeaf(got.enc, got.request.content, <<>>)) @@
       (s_url :> TextLeaf(BACKEND_URL, EmptyBody, url_path)) @@
       (s_code :> TextLeaf(get_code_for_endpoint_method(url_pattern, method), EmptyBody, <<>>)) @@
       (s_table_name :> TextLeaf(TABLE_NAME, EmptyBody, <<>>)) @@
       (s_method :> TextLeaf(got.request.method, EmptyBody, <<>>)))

\* lines 146-151, after get_request_content_for_llm returned `got`
LlmRouted(got, url_path, url_pattern, method) ==
  [raised |-> got.raised,
   request |-> IF got.raised THEN got.request
               ELSE Request("llm", <<"process">>, "POST",
                            Body("json", llm_req(got, url_path, url_pattern, method), "compact")),
   hashed |-> got.hashed, ran |-> got.ran]

\* handle_llm_routing(flow, url_path, url_pattern, method)
handle_llm_routing(flow_request, url_path, url_pattern, method, o) ==
  LlmRouted(get_request_content_for_llm(flow_request, url_pattern, method, o),
            url_path, url_pattern, method)

\* Lines 183-190 of request: the probe's answer `up`, the routing, and the
\* copy of the flow into the global.
RouteAndSnapshot(f, flow_request, url_path, url_pattern, method, up, o) ==
  \E routed \in {IF up THEN handle_backend_routing(flow_request, url_path, url_pattern, method, o)
                  ELSE handle_llm_routing(flow_request, url_path, url_pattern, method, o)} :
      /\ flows' = [flows EXCEPT ![f].stage = "sent", ![f].request = routed.request,
                                ![f].client = IF @ = NoRequest THEN flow_request ELSE @,
                                ![f].probed = IF up THEN "up" ELSE "down",
                                ![f].raised = routed.raised]
      /\ original_client_flow' =
           IF routed.raised THEN original_client_flow
           ELSE [owner |-> f, request |-> routed.request,
                 client |-> IF flows[f].client = NoRequest THEN flow_request ELSE flows[f].client]
      /\ fingerprints' = fingerprints \cup routed.hashed
      /\ executed' = executed \cup routed.ran
      /\ faults' = Faulted(routed.ran # {}, o)

\* a validation that goes on to the loop whatever the diff is
ReachesFixAnyDiff(flow_request, url_pattern, method) ==
  /\ method \in PutOrPatch
  /\ flow_request.content.kind # "empty"
  /\ ~DecodeRaises(flow_request.content)
  /\ ~LoadsRaises(flow_request.content)
  /\ get_schema_for_endpoint_method(url_pattern, method) # EmptyDict

\* whether validate_and_fix_request reaches apply_iterative_fixes (lines 63-82)
ReachesFix(flow_request, url_pattern, method) ==
  /\ method \in PutOrPatch
  /\ flow_request.content.kind # "empty"
  /\ ~DecodeRaises(flow_request.content)
  /\ ~LoadsRaises(flow_request.content)
  /\ get_schema_for_endpoint_method(url_pattern, method) # EmptyDict
  /\ LET compare_json_data ==
           Compared(get_schema_for_endpoint_method(url_pattern, method), flow_request.content)
     IN  compare_json_data.differences # <<>> \/ compare_json_data.similarity # <<>>

\* request(flow), to its end or to the loop of apply_iterative_fixes, for a
\* request that clients send out of `requests`
request_from(f, requests) ==
  /\ hook = NoHook
  /\ flows[f].stage = "new"
  /\ \A g \in Flows : g < f => flows[g].stage # "new"
  /\ \E r \in requests :
     \E flow_request \in {Request("proxy", r.path, r.method, r.content)} :
     \E url_pattern \in {find_route_pattern(r.path)} :
     \E endpoint_schema \in {get_schema_for_endpoint_method(url_pattern, r.method)} :
       IF ReachesFix(flow_request, url_pattern, r.method)
       THEN \E compare_json_data \in {Compared(endpoint_schema, r.content)} :
            \E o \in Outcomes :
                /\ flows' = [flows EXCEPT ![f].stage = "request", ![f].client = flow_request,
                                          ![f].request = flow_request]
                /\ logfile' = save_to_json_file(logfile,
                                generate_error_documentation(url_pattern, 0, r.method,
                                                             compare_json_data.differences))
                /\ EnterLoop("request", f, flow_request, r.content, endpoint_schema,
                             compare_json_data, url_pattern, r.method, o)
                /\ UNCHANGED <<original_client_flow, executed>>
       ELSE \E up \in BOOLEAN, o \in Outcomes :
                /\ RouteAndSnapshot(f, flow_request, r.path, url_pattern, r.method, up, o)
                /\ UNCHANGED <<scripts, logfile, hook, synth>>
  /\ UNCHANGED <<hashOrder, probe>>

\* request(flow) for the requests of the clients
request(f) == request_from(f, ClientRequests)

\* request(flow) from the return of apply_iterative_fixes (lines 92-96, 183-190)
request_continue(f) ==
  /\ hook.name = "request"
  /\ hook.flow = f
  /\ ~LoopCondition(hook)
  /\ \E up \in BOOLEAN :
       RouteAndSnapshot(f, [flows[f].request EXCEPT !.content = hook.fixed_req_content],
                        flows[f].request.path, hook.url_pattern, hook.method, up, "ok")
  /\ hook' = NoHook
  /\ UNCHANGED <<scripts, logfile, hashOrder, synth, probe>>

\* The exchange is over: the proxy sends flow.response to the client and
\* keeps nothing of the flow but what the global holds.
Released(fl) ==
  [NewFlow EXCEPT !.stage = "done", !.response = fl.response,
                  !.snapshotOf = fl.snapshotOf, !.replays = fl.replays,
                  !.replay = fl.replay]

\* response(flow), to its end or to its loop (lines 198-223); the server
\* answers with `status`
response(f) ==
  /\ hook = NoHook
  /\ flows[f].stage = "sent"
  /\ \E status \in Statuses :
       LET answered == [flows[f] EXCEPT !.response = Response(status, "server")]
           snapshot == original_client_flow.request
           client_req == snapshot.content
           method == snapshot.method
           acts == status \in FailureCodes /\ flows[f].request.content.kind # "empty"
           reads == acts /\ original_client_flow # NoSnapshot
           parses == reads /\ ~DecodeRaises(client_req) /\ ~LoadsRaises(client_req)
           read == [answered EXCEPT !.snapshotOf = original_client_flow.owner]
       IN  IF ~parses
           THEN /\ flows' = [flows EXCEPT ![f] = Released(IF reads THEN read ELSE answered)]
                /\ UNCHANGED <<scripts, logfile, hook, synth, fingerprints, faults>>
           ELSE
           \E url_pattern \in {find_route_pattern(snapshot.path)} :
           \E endpoint_schema \in {get_schema_for_endpoint_method(url_pattern, method)} :
           \E compare_json_data \in {Compared(endpoint_schema, client_req)} :
           \E file_path \in {get_file_path(flows[f].request, endpoint_schema)} :
             /\ logfile' = save_to_json_file(logfile,
                             generate_error_documentation(url_pattern, status, method,
                                                          compare_json_data.differences))
             /\ IF ~GenerateRaises(file_path)
                THEN \E o \in Outcomes :
                     /\ flows' = [flows EXCEPT ![f] = [read EXCEPT !.stage = "response"]]
                     /\ EnterLoop("response", f, flows[f].request, client_req, endpoint_schema,
                                  compare_json_data, url_pattern, method, o)
                ELSE /\ flows' = [flows EXCEPT ![f] = Released(read)]
                     /\ fingerprints' = fingerprints \cup Hashed(file_path, url_pattern, method)
                     /\ UNCHANGED <<scripts, hook, synth, faults>>
  /\ UNCHANGED <<original_client_flow, hashOrder, executed, probe>>

\* response(flow) from the end of its loop to the call of the replay
\* (lines 229-239): the request the proxy sends
response_continue(f) ==
  /\ hook.name = "response"
  /\ hook.flow = f
  /\ flows[f].stage = "response"
  /\ ~LoopCondition(hook)
  /\ flows' = [flows EXCEPT
                 ![f].stage = "replay",
                 ![f].replays = @ + 1,
                 ![f].replayed = Request(original_client_flow.request.host,
                                         original_client_flow.request.path,
                                         original_client_flow.request.method,
                                         hook.fixed_req_content)]
  /\ UNCHANGED <<original_client_flow, scripts, logfile, hook, hashOrder, synth, fingerprints,
                 executed, faults, probe>>

\* a replay whose timeout sets the status of the response to 0
ReplayedClears(flow_response, replay) ==
  IF replay.kind = "response" THEN Response(replay.status, "replay")
  ELSE IF replay.kind = "timeout" THEN Response(0, flow_response.content)
  ELSE flow_response

\* flow.response after the call of the replay (lines 241-246)
Replayed(flow_response, replay) ==
  IF replay.kind = "response" THEN Response(replay.status, "replay") ELSE flow_response

\* a replay that is sent again when it has timed out
replay_returns_retry(f) ==
  /\ hook.name = "response"
  /\ hook.flow = f
  /\ flows[f].stage = "replay"
  /\ \E replay \in ReplayOutcomes :
       /\ flows' = [flows EXCEPT
                      ![f] = IF replay.kind = "timeout" /\ @.replays < 2
                             THEN [@ EXCEPT !.stage = "response"]
                             ELSE Released([@ EXCEPT !.response = Replayed(@, replay),
                                                     !.replay = replay])]
       /\ hook' = IF replay.kind = "timeout" /\ flows[f].replays < 2 THEN hook ELSE NoHook
  /\ UNCHANGED <<original_client_flow, scripts, logfile, hashOrder, synth, fingerprints,
                 executed, faults, probe>>

\* response(flow) from the return of the replay to its end (lines 240-248):
\* an answer replaces the status and the body of flow.response, a timeout
\* or another error of the call leaves them
replay_returns(f) ==
  /\ hook.name = "response"
  /\ hook.flow = f
  /\ flows[f].stage = "replay"
  /\ \E replay \in ReplayOutcomes :
       flows' = [flows EXCEPT
                   ![f] = Released([@ EXCEPT !.response = Replayed(@, replay),
                                             !.replay = replay])]
  /\ hook' = NoHook
  /\ UNCHANGED <<original_client_flow, scripts, logfile, hashOrder, synth, fingerprints,
                 executed, faults, probe>>

Next ==
  \/ \E f \in Flows : request(f)
  \/ \E f \in Flows : request_continue(f)
  \/ \E f \in Flows : response(f)
  \/ \E f \in Flows : response_continue(f)
  \/ \E f \in Flows : replay_returns(f)
  \/ loop_round

Spec == Init /\ [][Next]_vars

\* The proxy with the clients of the routes /short and /alias.
ShortWrong == Dict(s_nme :> StrV(<<"v">>))
AliasValid == Dict((s_name :> StrV(<<"a">>)) @@ (s_nme :> StrV(<<"b">>)))

CrossRequests ==
  { ClientRequest(<<"short">>, "POST", JsonBody(ShortWrong)),
    ClientRequest(<<"alias">>, "POST", JsonBody(AliasValid)),
    ClientRequest(<<"users", "7">>, "PUT", JsonBody(NestedWrong)) }

\* request(flow) for the requests of these clients
cross_request(f) == request_from(f, CrossRequests)

CrossNext ==
  \/ \E f \in Flows : cross_request(f)
  \/ \E f \in Flows : request_continue(f)
  \/ \E f \in Flows : response(f)
  \/ \E f \in Flows : response_continue(f)
  \/ \E f \in Flows : replay_returns(f)
  \/ loop_round

CrossSpec == Init /\ [][CrossNext]_vars

(***************************************************************************)
(* Properties of the hooks and of the convergence loop                     *)
(***************************************************************************)
\* C1: the convergence loop stops within its cap of rounds: a loop that has
\* made MaxRounds rounds is not due for another one.
C1_LoopCapped ==
  hook.name # "none" /\ hook.rounds >= MaxRounds => ~LoopCondition(hook)

\* C2: the response hook of a flow reads the snapshot its own request hook
\* took, never the snapshot of another flow.
C2_OwnSnapshot == \A f \in Flows : flows[f].snapshotOf \in {0, f}

\* C3: a hook that starts a correction for a fingerprint whose script is in
\* storage reuses the script: it makes no call to generate_fix_data_script.
C3_ReuseStored ==
  [][hook = NoHook /\ hook' # NoHook /\ hook'.file_path \in DOMAIN scripts
       => synth' = synth]_vars

\* C4: a fingerprint belongs to one (route, method): no file path is computed
\* for two of them, and a script written for one is never run on a request
\* of another.
C4_FingerprintUnique ==
  /\ \A a, b \in fingerprints : a.file = b.file => a.for = b.for
  /\ \A e \in executed : e.origin = e.on

\* C5: the snapshot the request hook takes is the request as the client sent
\* it: its url, its method and its body.
C5_SnapshotOriginal ==
  original_client_flow # NoSnapshot =>
    original_client_flow.request = original_client_flow.client

\* C7: when the convergence loop returns a payload, the matcher finds no
\* rename candidate for it, and none after the final script is run on it
\* once more.
C7_FixedPoint ==
  hook.name # "none" /\ ~LoopCondition(hook) =>
    /\ Compared(hook.endpoint_schema, hook.fixed_req_content).similarity = <<>>
    /\ Compared(hook.endpoint_schema,
                RunScript(scripts[hook.file_path], hook.fixed_req_content)).similarity = <<>>

\* a loop has returned after at least one pass through its body
C7_Witness ==
  /\ hook.name # "none"
  /\ ~LoopCondition(hook)
  /\ hook.rounds >= 1
  /\ hook.first_similarity # <<>>
  /\ scripts[hook.file_path] # <<>>

RECURSIVE Renamed(_, _, _)
RECURSIVE RenamedBy(_, _, _, _)
\* the payload after n rename rounds: each round applies the renames the
\* matcher proposes for the payload of the round before
Renamed(endpoint_schema, data, n) ==
  IF n = 0 THEN data
  ELSE RenamedBy(endpoint_schema, compare_json(endpoint_schema, data, hashOrder).similarity, data, n)

\* one round with the candidates of the diff, then the rounds that are left;
\* with no candidate the rounds that are left change nothing
RenamedBy(endpoint_schema, similarity, data, n) ==
  IF similarity = <<>> THEN data
  ELSE Renamed(endpoint_schema, fix_data(similarity, data), n - 1)

\* the payload matches the schema after at most n rename rounds
MatchesWithin(endpoint_schema, data, n) ==
  compare_json(endpoint_schema, Renamed(endpoint_schema, data, n), hashOrder).differences = <<>>

\* the loop h has done what C8 says of a payload whose third rename round
\* gives `final`: it is not due for a round after 3 runs of the script, and
\* it returns `final`; or `final` does not match the schema
ConvergedTo(h, final) ==
  \/ /\ LoopCondition(h) => h.rounds + 1 < 3
     /\ ~LoopCondition(h) => h.fixed_req_content.data = final
  \/ compare_json(h.endpoint_schema, final, hashOrder).differences # <<>>

\* C8: for a payload that matches the schema after at most 3 rename rounds,
\* with every run of the script succeeding, the loop is not due for another
\* round once the script has run 3 times, and the payload it returns has
\* the renames of every round applied.
C8_Converges ==
  hook.name # "none" /\ hook.allOk =>
    ConvergedTo(hook, Renamed(hook.endpoint_schema, hook.client_req.data, 3))

\* the misnamed mapping in a misnamed mapping has converged after three runs
C8_Witness ==
  /\ hook.name # "none"
  /\ hook.allOk
  /\ hook.endpoint_schema = NestedSchema
  /\ hook.client_req.data = NestedWrong
  /\ ~LoopCondition(hook)
  /\ hook.rounds = 2
  /\ hook.fixed_req_content.data = NestedValid
  /\ MatchesWithin(NestedSchema, NestedWrong, 3)

\* the (wrong, correct) pairs of a list of candidates
Pairs(similarity) ==
  {[wrong |-> similarity[i].wrong, correct |-> similarity[i].correct] : i \in DOMAIN similarity}

\* how many entries of a diff at top level are of a kind
TopLevel(differences, kind) ==
  Cardinality({i \in DOMAIN differences :
                 differences[i].kind = kind /\ Len(differences[i].path) = 1})

\* a diff of 6 entries: 3 missing in the payload and 3 missing in the
\* schema, all at top level
SixAtTop(differences) ==
  /\ Len(differences) = 6
  /\ TopLevel(differences, MissingInB) = 3
  /\ TopLevel(differences, MissingInA) = 3

\* C10: for the schema {id, name, message, source} and the payload
\* {id, nme, messages, sourc} the diff has 3 entries missing in the payload
\* and 3 missing in the schema, all at top level; the candidates are
\* nme -> name, messages -> message, sourc -> source; the corrected payload
\* is {id, name, message, source} with the values of the payload; and the
\* diff of the schema and the corrected payload is empty.
C10_Scenario ==
  /\ hook.name # "none"
  /\ hook.allOk
  /\ hook.endpoint_schema = FlatSchema
  /\ hook.client_req.data = FlatWrong
  => /\ SixAtTop(Compared(FlatSchema, hook.client_req).differences)
     /\ Len(hook.first_similarity) = 3
     /\ Pairs(hook.first_similarity) =
          {[wrong |-> <<s_nme>>, correct |-> <<s_name>>],
           [wrong |-> <<s_messages>>, correct |-> <<s_message>>],
           [wrong |-> <<s_sourc>>, correct |-> <<s_source>>]}
     /\ hook.fixed_req_content.data = FlatValid
     /\ Compared(FlatSchema, hook.fixed_req_content).differences = <<>>
     /\ ~LoopCondition(hook)

\* the response hook has corrected the payload of the scenario and replays it
C10_Witness ==
  /\ hook.name = "response"
  /\ hook.allOk
  /\ hook.endpoint_schema = FlatSchema
  /\ hook.client_req.data = FlatWrong
  /\ flows[hook.flow].stage = "replay"
  /\ flows[hook.flow].replayed.content.data = FlatValid

(***************************************************************************)
(* The diff and the correction routine on their own                        *)
(*                                                                         *)
(* A second specification applies compare_json_keys, the matcher and       *)
(* fix_data to payloads that are not restricted to the requests above: a   *)
(* client payload is made from a starting payload by edits, the loop adds  *)
(* to its candidate list round by round, and the script is run on the      *)
(* payload and on payloads edited further.                                 *)
(***************************************************************************)
\* The model's bound on the edits that make a payload.
MaxEdits == 2

\* the names an edit gives to a key
EditNames == {s_name, s_nme, s_messages}

\* a mapping in a mapping, and a sequence of mappings
EditSchema ==
  Dict((s_name :> Dict(s_message :> StrV(<<"s">>))) @@
       (s_id :> List(<<Dict(s_name :> StrV(<<"s">>))>>)))

\* the schema with the mapping, its field and the field in the sequence misnamed
EditWrong ==
  Dict((s_nme :> Dict(s_messages :> StrV(<<"s">>))) @@
       (s_id :> List(<<Dict(s_nme :> StrV(<<"s">>))>>)))

\* the payloads the edits start from
EditClients == {EditSchema, EditWrong}

RECURSIVE Edited(_)
\* the values one edit away from v: a key deleted, renamed or added, an
\* element appended or removed, the type of a leaf changed
Edited(v) ==
  IF IsDict(v)
  THEN {DictDel(v, key) : key \in DOMAIN v.v}
         \cup {DictPut(DictDel(v, t[1]), t[2], v.v[t[1]]) :
                 t \in (DOMAIN v.v) \X (EditNames \ DOMAIN v.v)}
         \cup {DictPut(v, n, StrV(<<"x">>)) : n \in EditNames \ DOMAIN v.v}
         \cup UNION {{DictPut(v, key, w) : w \in Edited(v.v[key])} : key \in DOMAIN v.v}
  ELSE IF IsList(v)
  THEN (IF Len(v.v) < 2 THEN {List(Append(v.v, IntV(1)))} ELSE {})
         \cup (IF v.v # <<>> THEN {List(SubSeq(v.v, 1, Len(v.v) - 1))} ELSE {})
         \cup UNION {{List([v.v EXCEPT ![i] = w]) : w \in Edited(v.v[i])} : i \in DOMAIN v.v}
  ELSE IF v.k = "str" THEN {IntV(1)}
  ELSE {StrV(<<"x">>)}

\* probe: the schema, the payload the client sent, the candidate list the
\* loop has accumulated for it in `rounds` runs, the candidates of the
\* latest diff, and the payload the functions are applied to
EditInit ==
  /\ Started
  /\ \E sent \in EditClients :
       probe = [fn |-> "edit", endpoint_schema |-> EditSchema, client |-> sent,
                script |-> <<>>, found |-> <<>>, rounds |-> 0,
                payload |-> sent, edits |-> 0]

EditFrame ==
  UNCHANGED <<flows, original_client_flow, scripts, logfile, hook, hashOrder,
              synth, fingerprints, executed, faults>>

\* the client's payload gets one more edit
edit_client ==
  /\ probe.rounds = 0
  /\ probe.edits < MaxEdits
  /\ \E v \in Edited(probe.client) :
       probe' = [probe EXCEPT !.client = v, !.payload = v, !.edits = @ + 1]
  /\ EditFrame

\* One more run of the loop on the client's payload (lines 108-117): the
\* script of the run is the list accumulated so far, the candidates found
\* for its result are appended.
accumulate ==
  /\ probe.rounds <= MaxRounds
  /\ probe.rounds = 0 \/ probe.found # <<>>
  /\ probe.payload = probe.client
  /\ \E found \in {compare_json(probe.endpoint_schema,
                                IF probe.rounds = 0 THEN probe.client
                                ELSE fix_data(probe.script, probe.client),
                                hashOrder).similarity} :
       probe' = [probe EXCEPT !.script = @ \o found, !.found = found, !.rounds = @ + 1]
  /\ EditFrame

\* the script is run on the payload
run_script ==
  /\ probe.script # <<>>
  /\ fix_data(probe.script, probe.payload) # probe.payload
  /\ probe' = [probe EXCEPT !.payload = fix_data(probe.script, probe.payload)]
  /\ EditFrame

\* the payload gets one more edit
edit_payload ==
  /\ probe.script # <<>>
  /\ probe.edits < MaxEdits
  /\ \E v \in Edited(probe.payload) :
       probe' = [probe EXCEPT !.payload = v, !.edits = @ + 1]
  /\ EditFrame

EditNext ==
  \/ edit_client
  \/ accumulate
  \/ run_script
  \/ edit_payload

EditSpec == EditInit /\ [][EditNext]_vars

(***************************************************************************)
(* Properties of the diff and of the correction routine                    *)
(***************************************************************************)
\* the wrong path of a candidate is absent from the payload
Absent(data, cand) == GetPath(data, SplitPath(cand.wrong)) = Raised

\* C6: the script of every candidate list the loop accumulates is
\* idempotent on every payload, and a candidate whose wrong path is absent
\* from a payload leaves the payload as it is.
C6_Idempotent ==
  probe.fn = "edit" =>
    /\ fix_data(probe.script, fix_data(probe.script, probe.payload))
         = fix_data(probe.script, probe.payload)
    /\ \A i \in DOMAIN probe.script :
         Absent(probe.payload, probe.script[i])
           => ApplyRename(probe.payload, probe.script[i]) = probe.payload

\* a script changes a payload, and one of its candidates is absent from it
C6_Witness ==
  /\ probe.fn = "edit"
  /\ probe.payload # probe.client
  /\ fix_data(probe.script, probe.payload) # probe.payload
  /\ \E i \in DOMAIN probe.script : Absent(probe.payload, probe.script[i])

RECURSIVE SameStructure(_, _)
\* a and b have the same keys at every path and leaves of the same types:
\* the elements of two sequences all have one structure
SameStructure(a, b) ==
  IF IsDict(a) /\ IsDict(b)
  THEN /\ DOMAIN a.v = DOMAIN b.v
       /\ \A key \in DOMAIN a.v : SameStructure(a.v[key], b.v[key])
  ELSE IF IsList(a) /\ IsList(b)
  THEN /\ (a.v = <<>>) = (b.v = <<>>)
       /\ \A i \in DOMAIN a.v : \A j \in DOMAIN b.v : SameStructure(a.v[i], b.v[j])
  ELSE a.k = b.k

RECURSIVE SameSample(_, _)
\* the same, with the first element of a sequence standing for the sequence
SameSample(a, b) ==
  IF IsDict(a) /\ IsDict(b)
  THEN /\ DOMAIN a.v = DOMAIN b.v
       /\ \A key \in DOMAIN a.v : SameSample(a.v[key], b.v[key])
  ELSE IF IsList(a) /\ IsList(b)
  THEN /\ (a.v = <<>>) = (b.v = <<>>)
       /\ a.v # <<>> /\ b.v # <<>> => SameSample(a.v[1], b.v[1])
  ELSE a.k = b.k

\* C9 as stated: the diff of a schema and a payload is empty exactly when
\* the two have the same key structure and leaf types at every path.
C9_EveryPath ==
  probe.fn = "edit" =>
    /\ (compare_json_keys(probe.endpoint_schema, probe.payload, <<>>, hashOrder) = <<>>)
         = SameStructure(probe.endpoint_schema, probe.payload)
    /\ (compare_json_keys(probe.client, probe.payload, <<>>, hashOrder) = <<>>)
         = SameStructure(probe.client, probe.payload)

\* C9: the diff of a schema and a payload is empty exactly when the two
\* have the same key structure and leaf types at every path that leads
\* through mappings and through the first element of each sequence.  The
\* client's payload stands for a second schema.
C9_SampledPaths ==
  probe.fn = "edit" =>
    /\ (compare_json_keys(probe.endpoint_schema, probe.payload, <<>>, hashOrder) = <<>>)
         = SameSample(probe.endpoint_schema, probe.payload)
    /\ (compare_json_keys(probe.client, probe.payload, <<>>, hashOrder) = <<>>)
         = SameSample(probe.client, probe.payload)

\* the diff is empty for a payload whose sequence holds more than the schema's
C9_Witness ==
  /\ probe.fn = "edit"
  /\ compare_json_keys(probe.endpoint_schema, probe.payload, <<>>, hashOrder) = <<>>
  /\ ~SameStructure(probe.endpoint_schema, probe.payload)


(***************************************************************************)
(* Properties of the matcher                                               *)
(***************************************************************************)
\* the entries of a diff that are missing in the payload under the parent
\* of the path `wrong`
SameParentMissing(differences, wrong) ==
  {b \in DOMAIN differences :
     /\ differences[b].kind = MissingInB
     /\ BasePath(differences[b].path) = BasePath(wrong)}

\* the candidates `similarity` are pairs of the diff, one for a wrong
\* field at most, each with the best score under its parent
BestPairs(differences, similarity) ==
  /\ \A i \in DOMAIN similarity :
       /\ \E a \in DOMAIN differences :
            differences[a].path = similarity[i].wrong /\ differences[a].kind = MissingInA
       /\ \E b \in SameParentMissing(differences, similarity[i].wrong) :
            differences[b].path = similarity[i].correct
       /\ similarity[i].score
            = compare_words(FieldName(similarity[i].wrong), FieldName(similarity[i].correct))
       /\ \A b \in SameParentMissing(differences, similarity[i].wrong) :
            compare_words(FieldName(similarity[i].wrong), FieldName(differences[b].path))
              <= similarity[i].score
  /\ \A i, j \in DOMAIN similarity :
       similarity[i].wrong = similarity[j].wrong => i = j

\* the diff of the schema, or of the client's payload, and the payload
EditDiff(expected) == compare_json_keys(expected, probe.payload, <<>>, hashOrder)

\* C11: every candidate of the matcher pairs a field missing in the schema
\* with a field missing in the payload under the same parent, a wrong field
\* has one candidate at most, and the correct field of a candidate has the
\* highest score among the missing fields under that parent; for the diff
\* of the schema and every payload a client sends.
C11_BestPerWrong ==
  probe.fn = "edit" /\ probe.rounds = 0 =>
    \A differences \in {EditDiff(probe.endpoint_schema)} :
      \A similarity \in {finall_boss_improved(differences)} :
        BestPairs(differences, similarity)

\* a candidate that the matcher chose among two missing fields of its parent
\* with different scores
ChosenAmongTwo(differences, similarity) ==
  \E i \in DOMAIN similarity :
    \E b \in SameParentMissing(differences, similarity[i].wrong) :
      compare_words(FieldName(similarity[i].wrong), FieldName(differences[b].path))
        < similarity[i].score

C11_Witness ==
  /\ probe.fn = "edit"
  /\ probe.rounds = 0
  /\ ChosenAmongTwo(EditDiff(probe.endpoint_schema),
                    finall_boss_improved(EditDiff(probe.endpoint_schema)))

\* the segment of a path that ends in [0], and the key in front of it
EndsIdx(seg) == Len(seg) > Len(s_idx) /\ SubSeq(seg, Len(seg) - Len(s_idx) + 1, Len(seg)) = s_idx
IdxKey(seg) == SubSeq(seg, 1, Len(seg) - Len(s_idx))

RECURSIVE ValueAt(_, _)
\* the value of a payload at a path of the diff
ValueAt(data, parts) ==
  IF parts = <<>> THEN data
  ELSE IF ~IsDict(data) THEN Raised
  ELSE IF EndsIdx(parts[1])
  THEN IF IdxKey(parts[1]) \in DOMAIN data.v
          /\ IsList(data.v[IdxKey(parts[1])])
          /\ data.v[IdxKey(parts[1])].v # <<>>
       THEN ValueAt(data.v[IdxKey(parts[1])].v[1], Tail(parts))
       ELSE Raised
  ELSE IF parts[1] \in DOMAIN data.v THEN ValueAt(data.v[parts[1]], Tail(parts))
  ELSE Raised

\* the wrong fields of a diff with no field missing in the payload under
\* their parent
Unpaired(differences) ==
  {a \in DOMAIN differences :
     /\ differences[a].kind = MissingInA
     /\ SameParentMissing(differences, differences[a].path) = {}}

\* no candidate of `similarity` is for an unpaired field of the diff, and
\* the script of `similarity` leaves the field in the payload as it is
LeftAlone(differences, similarity, data) ==
  \A a \in Unpaired(differences) :
    /\ \A i \in DOMAIN similarity : similarity[i].wrong # differences[a].path
    /\ ValueAt(data, differences[a].path) # Raised
    /\ ValueAt(fix_data(similarity, data), differences[a].path)
         = ValueAt(data, differences[a].path)

\* C12: a wrong field with no field missing in the payload under its parent
\* gets no candidate, and the correction leaves it in the payload: the
\* script of the diff does, and so does the script the loop accumulates
\* for the client's payload.
C12_NoCounterpart ==
  probe.fn = "edit" =>
    /\ LeftAlone(EditDiff(probe.endpoint_schema),
                 finall_boss_improved(EditDiff(probe.endpoint_schema)), probe.payload)
    /\ probe.payload = probe.client =>
         LeftAlone(EditDiff(probe.endpoint_schema), probe.script, probe.client)

\* a payload with an unpaired wrong field that the script of its diff changes
C12_Witness ==
  /\ probe.fn = "edit"
  /\ Unpaired(EditDiff(probe.endpoint_schema)) # {}
  /\ fix_data(finall_boss_improved(EditDiff(probe.endpoint_schema)), probe.payload)
       # probe.payload

(***************************************************************************)
(* Properties of the fingerprint                                           *)
(***************************************************************************)
\* the file of the script for a payload and the schema of the edits
FingerprintOf(payload) ==
  get_file_path(Request(BACKEND_URL, <<>>, "POST", JsonBody(payload)), probe.endpoint_schema)

\* two values with the same keys at every level, whatever their leaves are
RECURSIVE SameKeys(_, _)
SameKeys(a, b) ==
  IF IsDict(a)
  THEN /\ IsDict(b)
       /\ DOMAIN a.v = DOMAIN b.v
       /\ \A key \in DOMAIN a.v : SameKeys(a.v[key], b.v[key])
  ELSE IF IsList(a)
  THEN /\ IsList(b)
       /\ Len(a.v) = Len(b.v)
       /\ \A i \in DOMAIN a.v : SameKeys(a.v[i], b.v[i])
  ELSE ~IsDict(b) /\ ~IsList(b)

\* C35 as stated: payloads with the same keys at every level have the
\* same fingerprint, and payloads with different sets of field names have
\* different fingerprints.
C35_KeysOnly ==
  probe.fn = "edit" =>
    /\ SameKeys(probe.client, probe.payload) =>
         FingerprintOf(probe.client) = FingerprintOf(probe.payload)
    /\ extract_all_fields(probe.client, <<>>) # extract_all_fields(probe.payload, <<>>) =>
         FingerprintOf(probe.client) # FingerprintOf(probe.payload)

\* C35, amended: payloads with the same keys at every level have the same
\* fingerprint, and so have payloads whose field names differ only in field
\* names of the schema.
C35_KeysUpToSchema ==
  probe.fn = "edit" =>
    \A backend_fields \in {extract_all_fields(probe.endpoint_schema, <<>>)} :
    \A a \in {extract_all_fields(probe.client, <<>>)} :
    \A b \in {extract_all_fields(probe.payload, <<>>)} :
      /\ SameKeys(probe.client, probe.payload) =>
           FingerprintOf(probe.client) = FingerprintOf(probe.payload)
      /\ a \cup backend_fields = b \cup backend_fields =>
           FingerprintOf(probe.client) = FingerprintOf(probe.payload)

\* two payloads with different field names and one fingerprint, and the
\* leaves of one of them have been edited
C35_Witness ==
  /\ probe.fn = "edit"
  /\ probe.edits > 0
  /\ probe.client # probe.payload
  /\ extract_all_fields(probe.client, <<>>) # extract_all_fields(probe.payload, <<>>)
  /\ FingerprintOf(probe.client) = FingerprintOf(probe.payload)

(***************************************************************************)
(* Properties of the diff, case by case                                    *)
(***************************************************************************)
RECURSIVE IsIdxs(_)
\* the text is "[0]" zero or more times
IsIdxs(text) ==
  \/ text = <<>>
  \/ /\ Len(text) >= Len(s_idx)
     /\ SubSeq(text, 1, Len(s_idx)) = s_idx
     /\ IsIdxs(SubSeq(text, Len(s_idx) + 1, Len(text)))

\* the path q is the path p or a path below it
AtOrBelow(q, p) ==
  /\ Len(q) >= Len(p)
  /\ SubSeq(q, 1, Len(p) - 1) = SubSeq(p, 1, Len(p) - 1)
  /\ Len(q[Len(p)]) >= Len(p[Len(p)])
  /\ SubSeq(q[Len(p)], 1, Len(p[Len(p)])) = p[Len(p)]
  /\ IsIdxs(SubSeq(q[Len(p)], Len(p[Len(p)]) + 1, Len(q[Len(p)])))

\* the entries of a diff at the path p and below it, in the order of the diff
Under(differences, p) == SelectSeq(differences, LAMBDA e : AtOrBelow(e.path, p))

\* the diff `differences` of the mappings a and b at `path` is what C26 says
DictLevel(a, b, path, differences, ord) ==
  /\ \A key \in (DOMAIN b.v) \ (DOMAIN a.v) :
       Under(differences, PathKey(path, key)) = <<[path |-> PathKey(path, key), kind |-> MissingInA]>>
  /\ \A key \in (DOMAIN a.v) \ (DOMAIN b.v) :
       Under(differences, PathKey(path, key)) = <<[path |-> PathKey(path, key), kind |-> MissingInB]>>
  /\ \A key \in (DOMAIN a.v) \cap (DOMAIN b.v) :
       /\ Under(differences, PathKey(path, key))
            = compare_json_keys(a.v[key], b.v[key], PathKey(path, key), ord)
       /\ \A i \in DOMAIN differences :
            differences[i].path = PathKey(path, key)
              => differences[i].kind \notin {MissingInA, MissingInB}
  /\ \A i \in DOMAIN differences :
       \E key \in (DOMAIN a.v) \cup (DOMAIN b.v) : AtOrBelow(differences[i].path, PathKey(path, key))
  /\ \A i, j \in DOMAIN differences : differences[i].path = differences[j].path => i = j

RECURSIVE AllLevels(_, _, _, _)
\* DictLevel for a and b and for every pair of mappings the diff recurses into
AllLevels(a, b, path, ord) ==
  IF IsDict(a) /\ IsDict(b)
  THEN /\ DictLevel(a, b, path, compare_json_keys(a, b, path, ord), ord)
       /\ \A key \in (DOMAIN a.v) \cap (DOMAIN b.v) :
            AllLevels(a.v[key], b.v[key], PathKey(path, key), ord)
  ELSE IF IsList(a) /\ IsList(b) /\ a.v # <<>> /\ b.v # <<>>
  THEN AllLevels(a.v[1], b.v[1], PathIdx(path), ord)
  ELSE TRUE

\* C26: where the schema and the payload are both mappings the diff has one
\* entry for every key of one side only, 'Missing in A' for a key of the
\* payload and 'Missing in B' for a key of the schema, at path.key, with no
\* entry below it; for a key of both sides it has the entries of the diff
\* of the two values and no missing entry at path.key; and it has no other
\* entry.  For the schema and every payload a client sends.
C26_MappingCase ==
  probe.fn = "edit" /\ probe.rounds = 0 =>
    AllLevels(probe.endpoint_schema, probe.payload, <<>>, hashOrder)

\* an edited payload with a key of its own and a key missing at top level
\* and in the mapping of a sequence the diff recursed into
C26_Witness ==
  /\ probe.fn = "edit" /\ probe.rounds = 0 /\ probe.edits > 0
  /\ \E i, j, k \in DOMAIN EditDiff(probe.endpoint_schema) :
       /\ EditDiff(probe.endpoint_schema)[i] = [path |-> <<s_nme>>, kind |-> MissingInA]
       /\ EditDiff(probe.endpoint_schema)[j] = [path |-> <<s_name>>, kind |-> MissingInB]
       /\ EditDiff(probe.endpoint_schema)[k] = [path |-> <<s_id \o s_idx, s_name>>, kind |-> MissingInB]

RECURSIVE FirstOnly(_)
\* the value with every sequence cut after its first element
FirstOnly(v) ==
  IF IsDict(v) THEN Dict([key \in DOMAIN v.v |-> FirstOnly(v.v[key])])
  ELSE IF IsList(v) /\ v.v # <<>> THEN List(<<FirstOnly(v.v[1])>>)
  ELSE v

RECURSIVE ListLevels(_, _, _, _)
\* wherever the diff of a and b comes to two sequences: the diff of two
\* that have elements is the diff of their first elements at path[0], the
\* diff of an empty one and one with elements is one missing entry at
\* path[0], the diff of two empty ones is empty
ListLevels(a, b, path, ord) ==
  IF IsDict(a) /\ IsDict(b)
  THEN \A key \in (DOMAIN a.v) \cap (DOMAIN b.v) :
         ListLevels(a.v[key], b.v[key], PathKey(path, key), ord)
  ELSE IF IsList(a) /\ IsList(b)
  THEN \A differences \in {compare_json_keys(a, b, path, ord)} :
         /\ a.v = <<>> /\ b.v = <<>> => differences = <<>>
         /\ a.v # <<>> /\ b.v = <<>>
              => /\ Len(differences) = 1
                 /\ differences[1].kind = MissingInB
                 /\ differences[1].path = PathIdx(path)
         /\ a.v = <<>> /\ b.v # <<>>
              => /\ Len(differences) = 1
                 /\ differences[1].kind = MissingInA
                 /\ differences[1].path = PathIdx(path)
         /\ a.v # <<>> /\ b.v # <<>>
              => /\ differences = compare_json_keys(a.v[1], b.v[1], PathIdx(path), ord)
                 /\ ListLevels(a.v[1], b.v[1], PathIdx(path), ord)
  ELSE TRUE

\* C27: of two sequences the diff compares the first elements only: the
\* diff of the schema and a payload is the diff of the two with every
\* sequence cut after its first element; a sequence with elements against
\* an empty one gives one missing entry at path[0], two empty sequences
\* give none.  For the schema and every payload a client sends; the payload
\* stands for a schema too, against the schema and against itself.
C27_SequenceCase ==
  probe.fn = "edit" /\ probe.rounds = 0 =>
    /\ EditDiff(probe.endpoint_schema)
         = compare_json_keys(FirstOnly(probe.endpoint_schema), FirstOnly(probe.payload),
                             <<>>, hashOrder)
    /\ ListLevels(probe.endpoint_schema, probe.payload, <<>>, hashOrder)
    /\ ListLevels(probe.payload, probe.endpoint_schema, <<>>, hashOrder)
    /\ ListLevels(probe.payload, probe.payload, <<>>, hashOrder)

\* a payload whose sequence has a second element that is no mapping, and
\* no entry of the diff for it
C27_Witness ==
  /\ probe.fn = "edit" /\ probe.rounds = 0
  /\ IsDict(probe.payload)
  /\ s_id \in DOMAIN probe.payload.v
  /\ IsList(probe.payload.v[s_id])
  /\ Len(probe.payload.v[s_id].v) = 2
  /\ ~IsDict(probe.payload.v[s_id].v[2])
  /\ FirstOnly(probe.payload) # probe.payload
  /\ \A i \in DOMAIN EditDiff(probe.endpoint_schema) :
       EditDiff(probe.endpoint_schema)[i].path[1] # s_id \o s_idx

(***************************************************************************)
(* Properties of the list of candidates over the rounds of a loop          *)
(***************************************************************************)
PrefixOf(s, t) == Len(s) <= Len(t) /\ SubSeq(t, 1, Len(s)) = s

\* a candidate whose wrong field lies inside the mapping that the candidate
\* `parent` gives its name to
ChildOf(child, parent) ==
  /\ Len(child.wrong) > Len(parent.correct)
  /\ AtOrBelow(child.wrong, parent.correct)

\* every candidate of a field inside a renamed mapping comes after the
\* candidate that renames the mapping
ParentsFirst(list) ==
  \A i, j \in DOMAIN list :
    ChildOf(list[j], list[i]) =>
      \E k \in 1..(j - 1) : list[k].wrong = list[i].wrong /\ list[k].correct = list[i].correct

\* C29: in a round of the loop the script is written from the list
\* accumulated so far, the list of the script of the round before is a
\* prefix of it and it is a prefix of the list of the next round, and in it
\* the rename of a mapping precedes the renames of the fields inside it.
C29_ListGrows ==
  [][hook.name # "none" /\ hook'.name # "none" /\ hook'.rounds = hook.rounds + 1 =>
       /\ scripts'[hook.file_path] = Accumulated(hook)
       /\ PrefixOf(scripts[hook.file_path], scripts'[hook.file_path])
       /\ PrefixOf(Accumulated(hook), Accumulated(hook'))
       /\ ParentsFirst(scripts'[hook.file_path])
       /\ ParentsFirst(Accumulated(hook'))]_vars

\* after two rounds on the nested payload the script renames a mapping and
\* then a field inside it
C29_Witness ==
  /\ hook.name # "none"
  /\ hook.rounds = 2
  /\ hook.client_req.data = NestedWrong
  /\ \E i, j \in DOMAIN scripts[hook.file_path] :
       i < j /\ ChildOf(scripts[hook.file_path][j], scripts[hook.file_path][i])
  /\ Len(Accumulated(hook)) > Len(scripts[hook.file_path])

\* the round of the loop run on the current payload: the script written in
\* the round is run on the result of the round before
OnCurrent(h, store, failed) ==
  fix_api(h.fixed_req_content, h.file_path, store, IF failed THEN "exit1" ELSE "ok")

\* C30: the payload of every round of the loop, which the code gets by
\* running the script of the round on the body of the client, is the payload
\* that the script gives when it is run on the payload of the round before.
C30_OnCurrentPayload ==
  [][hook.name # "none" /\ hook'.name # "none" /\ hook'.rounds = hook.rounds + 1 =>
       hook'.fixed_req_content.data = OnCurrent(hook, scripts', faults' # faults).data]_vars

(***************************************************************************)
(* Properties of the response hook                                         *)
(***************************************************************************)
\* the response hook of flow f runs in this step, on a response it has no
\* cause to act on: the status is no failure, or the client sent no body
Passes(f) ==
  /\ flows[f].stage = "sent"
  /\ flows'[f].stage # "sent"
  /\ ~(/\ flows'[f].response.status_code \in FailureCodes
       /\ flows[f].client.content.kind # "empty")

\* C13: the response hook acts only on a status of the failure set for a
\* request the client sent with a body; on every other response it leaves
\* the response as the server gave it, writes no audit entry and no script,
\* and replays nothing.
C13_ActsOnlyOnFailure ==
  [][\A f \in Flows :
       Passes(f) =>
         /\ flows'[f].stage = "done"
         /\ flows'[f].response.content = "server"
         /\ flows'[f].replays = flows[f].replays
         /\ logfile' = logfile
         /\ scripts' = scripts
         /\ synth' = synth]_vars

\* C14: the response the client gets is the replay's only if the replay
\* succeeded: a response whose status is of the failure set is the one the
\* server gave.
C14_SubstituteOnSuccess ==
  \A f \in Flows :
    flows[f].stage = "done" /\ flows[f].response.status_code \in FailureCodes
      => flows[f].response.content = "server"

\* C15: when the call of the replay times out or fails otherwise, the hook
\* leaves the status and the content of the response and returns; when the
\* call completes, both are the replay's.
C15_ReplayOutcome ==
  [][\A f \in Flows :
       flows[f].stage = "replay" /\ flows'[f].stage # "replay" =>
         /\ flows'[f].stage = "done"
         /\ hook' = NoHook
         /\ flows'[f].replay.kind \in {"timeout", "error"} =>
              flows'[f].response = flows[f].response
         /\ flows'[f].replay.kind = "response" =>
              flows'[f].response = Response(flows'[f].replay.status, "replay")]_vars

\* a replay has timed out and the client gets the server's failure
C15_Witness ==
  \E f \in Flows :
    /\ flows[f].stage = "done"
    /\ flows[f].replay.kind = "timeout"
    /\ flows[f].response.content = "server"
    /\ flows[f].response.status_code \in FailureCodes

(***************************************************************************)
(* Properties of the replay                                                *)
(***************************************************************************)
\* the calls an exchange has caused: the request the proxy forwarded and
\* the replays of the response hook
Calls(fl) == (IF fl.stage \in {"new", "request"} THEN 0 ELSE 1) + fl.replays

\* C31: the response hook sends one replay at most for the failure response
\* it handles, whatever the replay ends in, and the return of the replay ends
\* the hook: its response is not handled again, so that an exchange causes
\* two calls at most.
C31_ReplayBounded ==
  [][\A f \in Flows :
       /\ flows'[f].replays # flows[f].replays =>
            /\ flows[f].stage = "response"
            /\ flows[f].replays = 0
            /\ flows'[f].replays = 1
            /\ flows'[f].stage = "replay"
       /\ flows[f].stage = "replay" /\ flows'[f] # flows[f] =>
            /\ flows'[f].stage = "done"
            /\ hook' = NoHook
            /\ flows'[f].replays = 1
       /\ flows[f].stage = "done" => flows'[f] = flows[f]
       /\ Calls(flows'[f]) <= 2]_vars

\* both exchanges have ended after one replay each, one of which timed out
C31_Witness ==
  /\ \A f \in Flows : flows[f].stage = "done" /\ flows[f].replays = 1
  /\ \E f \in Flows : flows[f].replay.kind = "timeout"

(***************************************************************************)
(* Properties of the request hook                                          *)
(***************************************************************************)
\* C16: a request whose hook has run to its end has one target, the one
\* check_provider decided for it: the backend with the path and the method
\* of the client when the backend answered the probe, the fallback endpoint
\* when it did not.
C16_RoutedByProbe ==
  \A f \in Flows :
    flows[f].stage = "sent" /\ ~flows[f].raised =>
      /\ flows[f].probed \in {"up", "down"}
      /\ flows[f].probed = "up" =>
           /\ flows[f].request.host = BACKEND_URL
           /\ flows[f].request.path = flows[f].client.path
           /\ flows[f].request.method = flows[f].client.method
      /\ flows[f].probed = "down" =>
           /\ flows[f].request.host = "llm"
           /\ flows[f].request.path = <<"process">>

\* two requests in flight, one routed to the backend and the next one to
\* the fallback endpoint
C16_Witness ==
  /\ flows[1].stage = "sent" /\ flows[1].probed = "up" /\ ~flows[1].raised
  /\ flows[1].request.host = BACKEND_URL
  /\ flows[2].stage = "sent" /\ flows[2].probed = "down" /\ ~flows[2].raised
  /\ flows[2].request.host = "llm"

\* the keys of the envelope
EnvelopeKeys == {s_client_req, s_url, s_code, s_table_name, s_method}

\* `flow_request` is a POST to the fallback endpoint with the envelope of the
\* client's request `client` around the text `body`
Envelope(flow_request, client, body) ==
  /\ flow_request.host = "llm"
  /\ flow_request.path = <<"process">>
  /\ flow_request.method = "POST"
  /\ flow_request.content.kind = "json"
  /\ IsDict(flow_request.content.data)
  /\ DOMAIN flow_request.content.data.v = EnvelopeKeys
  /\ flow_request.content.data.v[s_method].text = client.method
  /\ flow_request.content.data.v[s_url].text = BACKEND_URL
  /\ flow_request.content.data.v[s_url].path = client.path
  /\ flow_request.content.data.v[s_code].text
       = get_code_for_endpoint_method(find_route_pattern(client.path), client.method)
  /\ flow_request.content.data.v[s_table_name].text = TABLE_NAME
  /\ flow_request.content.data.v[s_client_req].content \in body

\* the bodies a request may have after the correction before it is
\* forwarded: the output of the loop for a request that went through it,
\* else the body the client sent or what a stored script makes of it
Forwarded(f, sent) ==
  IF flows[f].stage = "request" THEN {hook.fixed_req_content}
  ELSE {sent} \cup {RunScript(scripts[p], sent) : p \in DOMAIN scripts}

\* C17: with the backend unreachable, the request becomes a POST to the
\* fallback endpoint whose body has the keys client_req, url, code,
\* table_name and method: the method the client used, the backend url with
\* the client's path, the code registered for the route and the method,
\* and the body of the request after the correction made before forwarding.
C17_Envelope ==
  [][\A f \in Flows :
       /\ flows[f].stage # "sent"
       /\ flows'[f].stage = "sent"
       /\ flows'[f].probed = "down"
       /\ ~flows'[f].raised
       => Envelope(flows'[f].request, flows'[f].client,
                   Forwarded(f, flows'[f].client.content))]_vars

\* a PATCH of the misnamed payload is in the envelope, corrected, with its
\* own method
C17_Witness ==
  \E f \in Flows :
    /\ flows[f].stage = "sent"
    /\ flows[f].probed = "down"
    /\ flows[f].client.method = "PATCH"
    /\ flows[f].request.method = "POST"
    /\ flows[f].request.content.data.v[s_method].text = "PATCH"
    /\ flows[f].request.content.data.v[s_client_req].content.data = FlatValid


\* the body of the request of flow f as it is forwarded: the body sent to
\* the backend, or the text under client_req in the envelope
ForwardedBody(flow_request) ==
  IF flow_request.host = "llm"
  THEN flow_request.content.data.v[s_client_req].content
  ELSE flow_request.content

\* C18: a PUT or PATCH request that goes through the convergence loop is
\* forwarded, to the backend or in the envelope, with the body the loop
\* returned, and that body differs from the body the client sent if and
\* only if a rename changed the payload.
C18_RewrittenIffCorrected ==
  [][\A f \in Flows :
       /\ flows[f].stage = "request"
       /\ flows'[f].stage = "sent"
       => /\ ForwardedBody(flows'[f].request) = hook.fixed_req_content
          /\ ForwardedBody(flows'[f].request) # flows'[f].client.content
               <=> hook.fixed_req_content.data # flows'[f].client.content.data]_vars


(***************************************************************************)
(* Properties of the scripts that later requests find                      *)
(***************************************************************************)
\* the file of the script for the request the client of a flow sent
FileOf(fl) ==
  get_file_path(fl.client,
                get_schema_for_endpoint_method(find_route_pattern(fl.client.path), fl.client.method))

\* the request hook of flow f runs from its start to the forwarding of a
\* request whose method is not PUT or PATCH and whose body is JSON
ForwardsOther(f, before, after) ==
  /\ before[f].stage = "new"
  /\ after[f].stage = "sent"
  /\ after[f].client.method \notin PutOrPatch
  /\ after[f].client.content.kind # "empty"
  /\ ~DecodeRaises(after[f].client.content)
  /\ ~LoadsRaises(after[f].client.content)

NothingToFix(r) ==
  /\ r.method \in PutOrPatch
  /\ \A endpoint_schema \in {get_schema_for_endpoint_method(find_route_pattern(r.path), r.method)} :
       \/ endpoint_schema = EmptyDict
       \/ /\ r.content.kind # "empty"
          /\ ~DecodeRaises(r.content)
          /\ ~LoadsRaises(r.content)
          /\ Compared(endpoint_schema, r.content).differences = <<>>

\* C34: for a PUT or PATCH request whose body has no difference from the
\* schema, or whose route and method have no schema, validate_and_fix_request
\* returns without entering the loop and changes nothing: the body that is
\* forwarded is the body of the client, no script and no audit entry is
\* written.
C34_NothingToFixNoEffect ==
  [][\A f \in Flows :
       flows[f].stage = "new" /\ flows'[f].stage # "new" /\ NothingToFix(flows'[f].client) =>
         /\ flows'[f].stage = "sent"
         /\ hook' = NoHook
         /\ ForwardedBody(flows'[f].request) = flows'[f].client.content
         /\ scripts' = scripts
         /\ synth' = synth
         /\ logfile' = logfile]_vars

\* a PATCH with the fields of the schema and a PUT to a route without a
\* schema for PUT have been forwarded
C34_Witness ==
  /\ \A f \in Flows : flows[f].stage = "sent" /\ NothingToFix(flows[f].client)
  /\ \E f \in Flows : flows[f].client.content.data = FlatValid
  /\ \E f \in Flows : find_route_pattern(flows[f].client.path) = T_receive

(***************************************************************************)
(* Properties of the request hook on bodies that fit the schema            *)
(***************************************************************************)
\* a request whose body has no difference from the schema of its route and
\* method
FitsSchema(r) ==
  /\ r.content.kind # "empty"
  /\ ~DecodeRaises(r.content)
  /\ ~LoadsRaises(r.content)
  /\ HasSchema(find_route_pattern(r.path), r.method)
  /\ Compared(get_schema_for_endpoint_method(find_route_pattern(r.path), r.method),
              r.content).differences = <<>>

\* C37: the payload that the request hook forwards for a request whose body
\* has no difference from the schema of its route and method is the payload
\* of the client, whatever scripts are stored.
C37_ValidBodyKept ==
  \A f \in Flows :
    flows[f].stage \notin {"new", "request"} /\ FitsSchema(flows[f].client) =>
      ForwardedBody(flows[f].request).data = flows[f].client.content.data

(***************************************************************************)
(* Properties of the request hook on a path no template matches            *)
(***************************************************************************)
\* C20: a request whose path matches no route template is never run
\* through a stored script, and the body that is forwarded for it is the
\* body the client sent, whatever the method and the scripts in storage.
C20_RouteNotFoundSkipped ==
  /\ \A run \in executed : run.on.route # NoneRoute
  /\ \A f \in Flows :
       /\ flows[f].stage = "sent"
       /\ ~flows[f].raised
       /\ find_route_pattern(flows[f].client.path) = NoneRoute
       => ForwardedBody(flows[f].request) = flows[f].client.content

(***************************************************************************)
(* Properties of the hooks on failures                                     *)
(***************************************************************************)
\* the body is not UTF-8 text, or not JSON
Undecodable(content) ==
  content.kind # "empty" /\ (DecodeRaises(content) \/ LoadsRaises(content))

\* C21: a request whose body is not UTF-8 or not JSON is forwarded with the
\* body the client sent, is routed and is copied into the snapshot; the
\* response hook of such a request leaves the response as the server gave
\* it, writes no script and replays nothing.
C21_DecodeDegrades ==
  [][\A f \in Flows :
       /\ flows[f].stage = "new" /\ flows'[f].stage = "sent"
          /\ Undecodable(flows'[f].client.content)
          => /\ ~flows'[f].raised
             /\ ForwardedBody(flows'[f].request) = flows'[f].client.content
             /\ flows'[f].request.host \in {BACKEND_URL, "llm"}
             /\ original_client_flow'.owner = f
       /\ flows[f].stage = "sent" /\ flows'[f].stage # "sent"
          /\ Undecodable(flows[f].client.content)
          => /\ flows'[f].stage = "done"
             /\ flows'[f].response.content = "server"
             /\ scripts' = scripts
             /\ flows'[f].replays = flows[f].replays]_vars

C23_MergesByRoute ==
  [][logfile' # logfile =>
       /\ logfile'.valid
       /\ logfile'.written \subseteq DOMAIN logfile'.docs
       /\ \E r \in DOMAIN logfile'.docs :
            \A q \in (logfile.written \cup DOMAIN logfile.docs) \ {r} :
              q \in DOMAIN logfile'.docs /\ logfile'.docs[q] = logfile.docs[q]]_vars

\* C25: the script stored for a fingerprint is never changed: every step
\* leaves every stored script as it is.
C25_AppendOnly ==
  [][\A p \in DOMAIN scripts : p \in DOMAIN scripts' /\ scripts'[p] = scripts[p]]_vars

(***************************************************************************)
(* The executor on its own: fix_api called with any text, on any file of   *)
(* api_correction_scripts/, after any scripts were written there           *)
(***************************************************************************)
\* the texts fix_api is called with: payloads, and a text that is not JSON
ExecApis == {JsonBody(FlatWrong), JsonBody(FlatValid), JsonBody(NestedWrong), TextBody}

\* the files of the payloads' field names
ExecPaths ==
  {get_file_path(Request("proxy", <<"receive">>, "POST", JsonBody(FlatWrong)), FlatSchema),
   get_file_path(Request("proxy", <<"users", "7">>, "PUT", JsonBody(NestedWrong)), NestedSchema)}

\* the candidate lists the scripts are written for
ExecScripts ==
  {<<>>,
   compare_json(FlatSchema, FlatWrong, hashOrder).similarity,
   compare_json(NestedSchema, NestedWrong, hashOrder).similarity}

\* no call of fix_api has been made
NoCall ==
  [fn |-> "fix_api", called |-> FALSE, api |-> EmptyBody, existed |-> FALSE,
   script |-> <<>>, o |-> "none", returned |-> EmptyBody]

ExecInit == Started /\ probe = NoCall

ExecFrame ==
  UNCHANGED <<flows, original_client_flow, logfile, hook, hashOrder,
              synth, fingerprints, executed, faults>>

\* generate_fix_data_script(field_similarity_tuples, file_path)
write_script ==
  /\ \E file_path \in ExecPaths, field_similarity_tuples \in ExecScripts :
       scripts' = generate_fix_data_script(field_similarity_tuples, file_path, scripts)
  /\ UNCHANGED probe
  /\ ExecFrame

\* fix_api(api, file_path): the run of the script, if there is one, ends as o
call_fix_api ==
  /\ \E api \in ExecApis, file_path \in ExecPaths, o \in ExecOutcomes :
       probe' = [fn |-> "fix_api", called |-> TRUE, api |-> api,
                 existed |-> file_path \in DOMAIN scripts,
                 script |-> IF file_path \in DOMAIN scripts THEN scripts[file_path] ELSE <<>>,
                 o |-> IF file_path \in DOMAIN scripts THEN o ELSE "none",
                 returned |-> fix_api(api, file_path, scripts, o)]
  /\ UNCHANGED scripts
  /\ ExecFrame

ExecNext ==
  \/ write_script
  \/ call_fix_api

ExecSpec == ExecInit /\ [][ExecNext]_vars

(***************************************************************************)
(* Properties of the executor                                              *)
(***************************************************************************)
\* the script of the call ran to its end and printed a text that is not a payload
Malformed(call) ==
  call.existed /\ call.o = "ok" /\ LoadsRaises(RunScript(call.script, call.api))

\* C19: fix_api returns the text it was given when the script is missing,
\* is killed at the timeout, exits non-zero or prints a text that is not a
\* payload; it returns another text only when the script ran to its end
\* and printed a payload.
C19_OriginalUnlessClean ==
  probe.fn = "fix_api" /\ probe.called =>
    /\ ~probe.existed \/ probe.o \in {"timeout", "exit1"} \/ Malformed(probe)
         => probe.returned = probe.api
    /\ probe.returned # probe.api
         => probe.existed /\ probe.o = "ok" /\ ~LoadsRaises(probe.returned)

(***************************************************************************)
(* The audit writer on its own: save_to_json_file run by two callers that  *)
(* nothing serialises.  The function reads the file (lines 209-214) and    *)
(* writes it (lines 220-221) with no lock between the two; the hooks of    *)
(* intercept.py call it from the proxy's event loop, one call at a time    *)
(* (Spec), so this specification is about the function alone.              *)
(***************************************************************************)
LogWriters == {1, 2}

\* the documents the callers write: two routes, two statuses
LogWrites ==
  {generate_error_documentation(r, st, "POST", <<>>) : r \in {T_receive, T_user}, st \in {400, 500}}

\* no call of save_to_json_file is under way
NoWrites ==
  [fn |-> "log", pc |-> [w \in LogWriters |-> "idle"],
   route |-> [w \in LogWriters |-> NoneRoute],
   data |-> [w \in LogWriters |-> <<>>]]

LogInit == Started /\ probe = NoWrites

LogFrame ==
  UNCHANGED <<flows, original_client_flow, scripts, hook, hashOrder,
              synth, fingerprints, executed, faults>>

\* lines 209-216 of a call save_to_json_file(entry): the file is read and
\* `data` becomes its mapping with the entry merged in
log_read(w) ==
  /\ probe.pc[w] = "idle"
  /\ \E entry \in LogWrites :
       probe' = [probe EXCEPT !.pc[w] = "read", !.route[w] = entry.route,
                              !.data[w] = save_to_json_file(logfile, entry).docs]
  /\ UNCHANGED logfile
  /\ LogFrame

\* lines 220-221 of the call: `data` replaces the content of the file
log_write(w) ==
  /\ probe.pc[w] = "read"
  /\ logfile' = [valid |-> TRUE, docs |-> probe.data[w],
                 written |-> logfile.written \cup {probe.route[w]}]
  /\ probe' = [probe EXCEPT !.pc[w] = "idle"]
  /\ LogFrame

LogNext == \E w \in LogWriters : log_read(w) \/ log_write(w)

LogSpec == LogInit /\ [][LogNext]_vars

\* C24: when the writes of two callers interleave, the log holds a document
\* for every route whose write has come to its end: no update is lost.
C24_NoLostUpdate ==
  probe.fn = "log" => logfile.written \subseteq DOMAIN logfile.docs

(***************************************************************************)
(* The diff and the matcher on their own: compare_json on flat mappings    *)
(* whose field names tie                                                   *)
(***************************************************************************)
s_nmes == <<"n", "m", "e", "s">>

\* Flat mappings of strings over field names of which nme is as close to
\* name as to nmes; the string of a field of the payload is its name.
MatchInit ==
  /\ Started
  /\ \E A, B \in SUBSET {s_name, s_nmes, s_nme, s_message, s_messages} :
       probe = [fn |-> "match", step |-> 0,
                a |-> Dict([key \in A |-> StrV(<<"s">>)]),
                b |-> Dict([key \in B |-> StrV(key)]),
                differences |-> <<>>, similarity |-> <<>>]

\* compare_json_keys(json_a, json_b)
diff_step ==
  /\ probe.fn = "match" /\ probe.step = 0
  /\ probe' = [probe EXCEPT !.step = 1,
                            !.differences = compare_json_keys(probe.a, probe.b, <<>>, hashOrder)]
  /\ EditFrame

\* finall_boss_improved(differences)
match_step ==
  /\ probe.fn = "match" /\ probe.step = 1
  /\ probe' = [probe EXCEPT !.step = 2,
                            !.similarity = finall_boss_improved(probe.differences)]
  /\ EditFrame

MatchNext ==
  \/ diff_step
  \/ match_step

MatchSpec == MatchInit /\ [][MatchNext]_vars

\* the place of a path in a diff
PlaceOf(differences, path) == CHOOSE i \in DOMAIN differences : differences[i].path = path

\* the fields missing in the payload under the parent of `wrong` that score
\* `score` against it
Scoring(differences, wrong, score) ==
  {b \in SameParentMissing(differences, wrong) :
     compare_words(FieldName(wrong), FieldName(differences[b].path)) = score}

\* C28: the candidates are in the order of their scores, the highest
\* first, and the correct field of a candidate is the first in the order of
\* the diff among the missing fields under its parent that have its score.
C28_SortedFirstSeen ==
  probe.fn = "match" /\ probe.step = 2 =>
    /\ \A i, j \in DOMAIN probe.similarity :
         i < j => probe.similarity[i].score >= probe.similarity[j].score
    /\ \A i \in DOMAIN probe.similarity :
         \A b \in Scoring(probe.differences, probe.similarity[i].wrong, probe.similarity[i].score) :
           PlaceOf(probe.differences, probe.similarity[i].correct) <= b

\* two candidates of different scores, one of them chosen among two fields
\* that tie
C28_Witness ==
  /\ probe.fn = "match" /\ probe.step = 2
  /\ \E i, j \in DOMAIN probe.similarity :
       /\ probe.similarity[i].score > probe.similarity[j].score
       /\ Cardinality(Scoring(probe.differences, probe.similarity[j].wrong,
                              probe.similarity[j].score)) = 2

\* the leaves of a flat mapping
LeavesOf(data) == {data.v[key] : key \in DOMAIN data.v}

\* C36: no two candidates of one call of the matcher have the same correct
\* field, and the routine written from the candidates keeps every leaf of
\* the payload it is run on.
C36_NoValueLost ==
  probe.fn = "match" /\ probe.step = 2 =>
    /\ \A i, j \in DOMAIN probe.similarity :
         probe.similarity[i].correct = probe.similarity[j].correct => i = j
    /\ LeavesOf(probe.b) \subseteq LeavesOf(fix_data(probe.similarity, probe.b))

\* the fields of a flat payload that a list of candidates names
Named(similarity) ==
  {similarity[i].wrong[1] : i \in DOMAIN similarity}
    \cup {similarity[i].correct[1] : i \in DOMAIN similarity}

\* C38: the routine written from the candidates of the matcher leaves every
\* field of the payload that no candidate names with its key and its value,
\* and the correct field of every candidate has the value that the payload
\* had under the wrong name.
C38_OnlyNamedPaths ==
  probe.fn = "match" /\ probe.step = 2 =>
    \A fixed \in {fix_data(probe.similarity, probe.b)} :
      /\ \A key \in DOMAIN probe.b.v \ Named(probe.similarity) :
           key \in DOMAIN fixed.v /\ fixed.v[key] = probe.b.v[key]
      /\ \A i \in DOMAIN probe.similarity :
           /\ probe.similarity[i].correct[1] \in DOMAIN fixed.v
           /\ fixed.v[probe.similarity[i].correct[1]] = probe.b.v[probe.similarity[i].wrong[1]]

(***************************************************************************)
(* Route resolution on its own: find_route_pattern on the characters of    *)
(* paths and templates                                                     *)
(***************************************************************************)
\* A path or a template is the sequence of its characters.

\* the place of the first ">" of `text` at or after place i, 0 if none
RECURSIVE NextClose(_, _)
NextClose(text, i) ==
  IF i > Len(text) THEN 0
  ELSE IF text[i] = ">" THEN i
  ELSE NextClose(text, i + 1)

\* re.sub(r'<[^>]+>', r'([^/]+)', route_pattern), from place i on: the
\* regular expression as a sequence of items, "seg" for ([^/]+), "any" for
\* the "." that the substitution leaves as it is, "lit" for a character
\* that stands for itself
RECURSIVE re_sub(_, _)
re_sub(route_pattern, i) ==
  IF i > Len(route_pattern) THEN <<>>
  ELSE IF route_pattern[i] = "<" /\ NextClose(route_pattern, i + 1) > i + 1
  THEN <<[item |-> "seg", c |-> ""]>> \o re_sub(route_pattern, NextClose(route_pattern, i + 1) + 1)
  ELSE IF route_pattern[i] = "."
  THEN <<[item |-> "any", c |-> ""]>> \o re_sub(route_pattern, i + 1)
  ELSE <<[item |-> "lit", c |-> route_pattern[i]]>> \o re_sub(route_pattern, i + 1)

\* re.match(f'^{regex_pattern}$', request_path), from item i and place j on
RECURSIVE re_match(_, _, _, _)
re_match(regex_pattern, i, request_path, j) ==
  IF i > Len(regex_pattern) THEN j > Len(request_path)
  ELSE IF j > Len(request_path) THEN FALSE
  ELSE IF regex_pattern[i].item = "seg"
  THEN \E n \in j..Len(request_path) :
         /\ \A k \in j..n : request_path[k] # "/"
         /\ re_match(regex_pattern, i + 1, request_path, n + 1)
  ELSE IF regex_pattern[i].item = "any"
  THEN re_match(regex_pattern, i + 1, request_path, j + 1)
  ELSE /\ request_path[j] = regex_pattern[i].c
       /\ re_match(regex_pattern, i + 1, request_path, j + 1)

\* is_dynamic_route_match(request_path, route_pattern) of utils.py
is_dynamic_route_match_re(request_path, route_pattern) ==
  re_match(re_sub(route_pattern, 1), 1, request_path, 1)

NoRoute == [kind |-> "None", route |-> <<>>]
RaisesValueError == [kind |-> "ValueError", route |-> <<>>]
Route(route_pattern) == [kind |-> "str", route |-> route_pattern]

\* find_route_pattern(request_path, routes_data=routes_data): routes_data is
\* the sequence of the keys of the registry in their order
find_route_pattern_re(request_path, routes_data) ==
  IF routes_data = <<>> THEN RaisesValueError
  ELSE IF \E i \in DOMAIN routes_data : routes_data[i] = request_path THEN Route(request_path)
  ELSE IF \E i \in DOMAIN routes_data : is_dynamic_route_match_re(request_path, routes_data[i])
  THEN Route(routes_data[CHOOSE i \in DOMAIN routes_data :
                 /\ is_dynamic_route_match_re(request_path, routes_data[i])
                 /\ \A j \in 1..(i - 1) : ~is_dynamic_route_match_re(request_path, routes_data[j])])
  ELSE NoRoute

\* the templates of the registries and the paths of the requests
RouteTemplates ==
  { <<"/", "a">>, <<"/", "<", "p", ">">>, <<"/", "a", ".", "b">>,
    <<"/", "a", "/", "<", "p", ">">>, <<"/", "<", "p", ">", "/", "b">> }
RoutePaths ==
  { <<"/", "a">>, <<"/", "b">>, <<"/", "a", ".", "b">>, <<"/", "a", "a", "b">>,
    <<"/", "a", "/", "b">>, <<"/", "a", "/">>, <<"/">>, <<"/", "<", "p", ">">> }
Registries ==
  {<<>>} \cup {<<t>> : t \in RouteTemplates}
    \cup ({<<t, u>> : t, u \in RouteTemplates} \ {<<t, t>> : t \in RouteTemplates})

RouteInit ==
  /\ Started
  /\ \E routes_data \in Registries, request_path \in RoutePaths :
       probe = [fn |-> "route", routes_data |-> routes_data, request_path |-> request_path,
                resolved |-> FALSE, url_pattern |-> NoRoute]

\* url_pattern = find_route_pattern(url_path, routes_data=codes)
resolve ==
  /\ probe.fn = "route"
  /\ ~probe.resolved
  /\ probe' = [probe EXCEPT !.resolved = TRUE,
                            !.url_pattern = find_route_pattern_re(probe.request_path,
                                                                  probe.routes_data)]
  /\ UNCHANGED <<flows, original_client_flow, scripts, logfile, hook, hashOrder,
                 synth, fingerprints, executed, faults>>

RouteNext == resolve

RouteSpec == RouteInit /\ [][RouteNext]_vars

\* the template, read as Flask reads it: a placeholder stands for one
\* segment that is not empty, every other character for itself
RECURSIVE Binds(_, _, _, _)
Binds(route_pattern, i, request_path, j) ==
  IF i > Len(route_pattern) THEN j > Len(request_path)
  ELSE IF route_pattern[i] = "<" /\ NextClose(route_pattern, i + 1) > i + 1
  THEN \E n \in j..Len(request_path) :
         /\ \A k \in j..n : request_path[k] # "/"
         /\ Binds(route_pattern, NextClose(route_pattern, i + 1) + 1, request_path, n + 1)
  ELSE /\ j <= Len(request_path)
       /\ request_path[j] = route_pattern[i]
       /\ Binds(route_pattern, i + 1, request_path, j + 1)

\* C33: the resolution gives the path when the path is a key of the
\* registry; otherwise the first template of the registry that the whole
\* path fits with every placeholder bound to one segment that is not empty;
\* and no template when the path fits none.
C33_ExactThenFirstFit ==
  probe.fn = "route" /\ probe.resolved =>
    \A keys \in {probe.routes_data} : \A p \in {probe.request_path} :
      IF \E i \in DOMAIN keys : keys[i] = p THEN probe.url_pattern = Route(p)
      ELSE IF \E i \in DOMAIN keys : Binds(keys[i], 1, p, 1)
      THEN \E i \in DOMAIN keys :
             /\ Binds(keys[i], 1, p, 1)
             /\ \A j \in 1..(i - 1) : ~Binds(keys[j], 1, p, 1)
             /\ probe.url_pattern = Route(keys[i])
      ELSE probe.url_pattern = NoRoute

=============================================================================
